---- MODULE Spec2Model ----
(***************************************************************************)
(* Fill simulator (VirTrivedi/Fill-Simulator): the order manager/matcher,  *)
(* the latency model and the tops/fills driver of FillSimulator, as a      *)
(* state machine.  One action per driver step; processBookTop and          *)
(* processBookFill are whole-handler actions, their nested calls           *)
(* (processAction, processFill, the strategy callbacks) are operators on   *)
(* a record of the simulator's fields.                                     *)
(*                                                                         *)
(* Units.  TLC's integers are 32 bit, the program's prices are int64       *)
(* nanos.  Prices are kept in units of one dollar (PriceScale model units  *)
(* per dollar instead of 10^9), so MAX_REASONABLE_PRICE is                 *)
(* 10000 * PriceScale, and INT64_MAX is the largest TLC integer; only      *)
(* comparisons are made with it.  Timestamps and latencies are in ns.      *)
(***************************************************************************)
EXTENDS Integers, Sequences, FiniteSets, TLC

(***************************************************************************)
(* Bounds of the model                                                     *)
(***************************************************************************)
\* model price units per dollar (the source has 10^9 nanos per dollar)
PriceScale == 1
\* records in the tops file and the fills file together (Spec)
MaxEvents == 2
\* records in the tops file and the fills file together (SpecFilter)
FilterMaxEvents == 2
\* records in the tops file and in the fills file (SpecMerge)
MergeMaxTops == 3
MergeMaxFills == 2
\* number of onOrderFilled invocations per event that return an action
MaxNested == 1
\* records in the tops file and the fills file together (SpecChain)
ChainMaxEvents == 2
\* number of nested processFill frames the call stack has room for (SpecChain)
MaxStack == 3
\* records in the tops file and the fills file together (SpecOlder)
OlderMaxEvents == 3
\* records in the tops file and the fills file together (SpecLatency)
LatencyMaxEvents == 2
\* records in the book events file (SpecQueue)
QueueMaxEvents == 3
\* records in the book events file (SpecBook)
BookMaxEvents == 3
\* width in bits of the model's qty_t (the source has 32)
QtyBits == 4
\* records in the book events file (SpecModes)
ModesMaxEvents == 4

(***************************************************************************)
(* Program constants                                                       *)
(***************************************************************************)
MIN_PROCESSING_INTERVAL == 100000
MAX_REASONABLE_PRICE == 10000 * PriceScale
INT64_MAX == 2147483647

(***************************************************************************)
(* Input domains                                                           *)
(***************************************************************************)
\* the order ids the strategy uses
Ids == {1, 2}
SymbolIds == {7}
\* timestamps of input records: around the coalescer's interval, and apart by it
TsSet == {0, 1, 100000, 100001, 200000}
Times == {0, 100000}
\* <<strategyMdLatencyNs, exchangeLatencyNs>> the simulator is constructed with
Latencies == {<<0, 0>>, <<2000, 5000>>}

Level(b, a, bq, aq) == [bid_nanos |-> b, ask_nanos |-> a, bid_qty |-> bq, ask_qty |-> aq]
\* a missing depth level as the feed fills it
NoLevel == Level(0, INT64_MAX, 0, 0)
\* top levels of the input records: valid ones, and one for every way of being invalid
ValidLevels == {Level(99, 101, 5, 5), Level(100, 101, 5, 5), Level(99, 100, 5, 5)}
MergeLevels == {Level(99, 101, 5, 5), Level(100, 100, 5, 5)}
TopLevels ==
    ValidLevels \cup
    { Level(MAX_REASONABLE_PRICE - 1, MAX_REASONABLE_PRICE, 5, 5),
      Level(0, 101, 0, 5), Level(100, 0, 5, 0), Level(-1, 101, 5, 5),
      Level(100, 100, 5, 5), Level(101, 100, 5, 5),
      Level(MAX_REASONABLE_PRICE, MAX_REASONABLE_PRICE + 1, 5, 5),
      Level(100, MAX_REASONABLE_PRICE + 1, 5, 5),
      Level(100, INT64_MAX, 5, 0) }
BookTopT(ts, lvl) == [ts |-> ts, top_level |-> lvl, second_level |-> NoLevel, third_level |-> NoLevel]
\* the value-initialised book_top_t of a fresh MarketState
ZeroTop == [ts |-> 0, top_level |-> Level(0, 0, 0, 0),
            second_level |-> Level(0, 0, 0, 0), third_level |-> Level(0, 0, 0, 0)]

(***************************************************************************)
(* State                                                                   *)
(***************************************************************************)
VARIABLES
    \* FillSimulator's fields
    marketState_,          \* lastBookTop, bidLevels, askLevels, lastValidMidPrice
    activeOrders_,         \* orderId -> OrderInfo
    position_, cashFlow_,
    totalOrdersPlaced_, totalOrdersFilled_,
    totalBuyVolume_, totalSellVolume_,
    latencyStats_,
    strategyMdLatencyNs_, exchangeLatencyNs_,
    lastProcessedTime,     \* the static local of processBookTop
    outputFile_,           \* the OrderRecords the last dispatched event appended
    \* runSimulation's locals
    pc, bookTop, bookFill, hasMoreTops, hasMoreFills,
    processedTops, processedFills,
    \* history of the run, for stating the properties
    trace,                 \* the steps of the last dispatched event, in order
    topsRead, fillsRead,   \* number of records read from each file so far
    dispatched,            \* kind and ts of the record dispatched last
    \* a second run of the simulator, for the properties that compare two runs
    shadow,                \* the fields of a simulator with other latencies
    \* runQueueSimulation's locals
    queueRun               \* bid_book, ask_book, order_map, currentTop, topChanged

simVars == <<marketState_, activeOrders_, position_, cashFlow_, totalOrdersPlaced_,
             totalOrdersFilled_, totalBuyVolume_, totalSellVolume_, latencyStats_,
             strategyMdLatencyNs_, exchangeLatencyNs_, lastProcessedTime, outputFile_, trace,
             shadow, queueRun>>
drvVars == <<pc, bookTop, bookFill, hasMoreTops, hasMoreFills, processedTops,
             processedFills, topsRead, fillsRead, dispatched>>
vars == <<simVars, drvVars>>

(***************************************************************************)
(* The simulator's fields as one record, which the operators below         *)
(* transform.  script, freed, inserted, erased and depth are not program   *)
(* state: script is what the strategy's next onOrderFilled calls will      *)
(* return, freed is what a read of a destroyed map node yields, inserted   *)
(* and erased collect the ids whose map node was created or destroyed,     *)
(* depth is the number of processFill frames on the call stack.            *)
(***************************************************************************)
Sim(oracle) ==
    [ marketState_ |-> marketState_, activeOrders_ |-> activeOrders_,
      position_ |-> position_, cashFlow_ |-> cashFlow_,
      totalOrdersPlaced_ |-> totalOrdersPlaced_, totalOrdersFilled_ |-> totalOrdersFilled_,
      totalBuyVolume_ |-> totalBuyVolume_, totalSellVolume_ |-> totalSellVolume_,
      latencyStats_ |-> latencyStats_,
      strategyMdLatencyNs_ |-> strategyMdLatencyNs_, exchangeLatencyNs_ |-> exchangeLatencyNs_,
      lastProcessedTime |-> lastProcessedTime,
      outputFile_ |-> <<>>, trace |-> <<>>,
      script |-> oracle.script, freed |-> oracle.freed, inserted |-> {}, erased |-> {},
      depth |-> 0, build |-> oracle.build, oracle |-> oracle ]

SetFields(s) ==
    /\ marketState_' = s.marketState_
    /\ activeOrders_' = s.activeOrders_
    /\ position_' = s.position_
    /\ cashFlow_' = s.cashFlow_
    /\ totalOrdersPlaced_' = s.totalOrdersPlaced_
    /\ totalOrdersFilled_' = s.totalOrdersFilled_
    /\ totalBuyVolume_' = s.totalBuyVolume_
    /\ totalSellVolume_' = s.totalSellVolume_
    /\ latencyStats_' = s.latencyStats_
    /\ strategyMdLatencyNs_' = s.strategyMdLatencyNs_
    /\ exchangeLatencyNs_' = s.exchangeLatencyNs_
    /\ lastProcessedTime' = s.lastProcessedTime
    /\ outputFile_' = s.outputFile_
    /\ trace' = s.trace

SetSim(s) == SetFields(s) /\ shadow' = shadow /\ queueRun' = queueRun

\* The second simulator as such a record, and what is kept of it
Fieldnames == {"marketState_", "activeOrders_", "position_", "cashFlow_",
               "totalOrdersPlaced_", "totalOrdersFilled_", "totalBuyVolume_",
               "totalSellVolume_", "latencyStats_", "strategyMdLatencyNs_",
               "exchangeLatencyNs_", "lastProcessedTime", "outputFile_"}
SimShadow(oracle) ==
    LET s == Sim(oracle)
    IN [f \in DOMAIN s |-> IF f \in Fieldnames \ {"outputFile_"} THEN shadow[f] ELSE s[f]]
FieldsOf(s) == [f \in Fieldnames |-> s[f]]

(***************************************************************************)
(* The strategy.  It is any implementation of the Strategy interface: the  *)
(* action list a callback returns is an input of the step.  An action is   *)
(* an OrderAction as the strategy fills it in (md_ts is overwritten by the *)
(* simulator before use).                                                  *)
(***************************************************************************)
OrderAction(type, orderId, symbolId, sent_ts, price, quantity, isBid, isPostOnly) ==
    [type |-> type, orderId |-> orderId, symbolId |-> symbolId, sent_ts |-> sent_ts,
     md_ts |-> 0, price |-> price, quantity |-> quantity, isBid |-> isBid,
     isPostOnly |-> isPostOnly]

OrderInfo(action) ==
    [orderId |-> action.orderId, symbolId |-> action.symbolId, sent_ts |-> action.sent_ts,
     md_ts |-> action.md_ts, price |-> action.price, quantity |-> action.quantity,
     filledQuantity |-> 0, isBid |-> action.isBid, isPostOnly |-> action.isPostOnly]

(***************************************************************************)
(* Helpers                                                                 *)
(***************************************************************************)
MapPut(m, k, v) == [x \in DOMAIN m \cup {k} |-> IF x = k THEN v ELSE m[x]]
MapErase_none(m, k) == m
MapErase(m, k) == [x \in DOMAIN m \ {k} |-> m[x]]

\* The trace of a dispatch: one step per state change, callback, call and
\* record, each with the values of the fields the properties speak about at
\* that point.
NoAction == OrderAction("NONE", 0, 0, 0, 0, 0, FALSE, FALSE)
Snap(s) ==
    [activeOrders_ |-> s.activeOrders_, position_ |-> s.position_, cashFlow_ |-> s.cashFlow_,
     totalOrdersPlaced_ |-> s.totalOrdersPlaced_, totalOrdersFilled_ |-> s.totalOrdersFilled_,
     totalBuyVolume_ |-> s.totalBuyVolume_, totalSellVolume_ |-> s.totalSellVolume_,
     lastBookTop |-> s.marketState_.lastBookTop,
     lastValidMidPrice |-> s.marketState_.lastValidMidPrice,
     records |-> Len(s.outputFile_)]
Step(s, ev, id, ts, action, ret) ==
    [ev |-> ev, id |-> id, ts |-> ts, action |-> action, ret |-> ret,
     depth |-> s.depth, snap |-> Snap(s)]
LogCall(s, ev, id, ts, action, ret) ==
    [s EXCEPT !.trace = Append(@, Step(s, ev, id, ts, action, ret))]
Log(s, ev, id, ts) == LogCall(s, ev, id, ts, NoAction, <<>>)

applyMdLatency_none(s, timestamp) == timestamp
applyMdLatency(s, timestamp) == timestamp + s.strategyMdLatencyNs_
applyExchangeLatency_none(s, timestamp) == timestamp
applyExchangeLatency(s, timestamp) == timestamp + s.exchangeLatencyNs_

OrderRecord(timestamp, event_type, order_id, symbol_id, price, quantity, is_bid) ==
    [timestamp |-> timestamp, event_type |-> event_type, order_id |-> order_id,
     symbol_id |-> symbol_id, price |-> price, quantity |-> quantity, is_bid |-> is_bid]

ReplaceRecord(timestamp, order_id, symbol_id, old_price, price, old_quantity, quantity, is_bid) ==
    [timestamp |-> timestamp, event_type |-> 4, order_id |-> order_id,
     symbol_id |-> symbol_id, price |-> price, old_price |-> old_price,
     quantity |-> quantity, old_quantity |-> old_quantity, is_bid |-> is_bid]

writeOrderRecord(s, record) ==
    LET s1 == [s EXCEPT !.outputFile_ = Append(@, record)]
    IN Log(s1, "record", record.order_id, record.timestamp)

wouldOrderBeFilled_strict(s, isBid, price, quantity) ==
    IF price <= 0 \/ quantity = 0 THEN FALSE
    ELSE IF isBid
         THEN LET bestAsk == s.marketState_.lastBookTop.top_level.ask_nanos
              IN IF bestAsk <= 0 \/ bestAsk = INT64_MAX THEN FALSE ELSE price > bestAsk
         ELSE LET bestBid == s.marketState_.lastBookTop.top_level.bid_nanos
              IN IF bestBid <= 0 \/ bestBid = INT64_MAX THEN FALSE ELSE price < bestBid

wouldOrderBeFilled_anyPrice(s, isBid, price, quantity) ==
    IF price <= 0 \/ quantity = 0 THEN FALSE
    ELSE IF isBid
         THEN LET bestAsk == s.marketState_.lastBookTop.top_level.ask_nanos
              IN IF bestAsk <= 0 \/ bestAsk = INT64_MAX THEN FALSE ELSE TRUE
         ELSE LET bestBid == s.marketState_.lastBookTop.top_level.bid_nanos
              IN IF bestBid <= 0 \/ bestBid = INT64_MAX THEN FALSE ELSE TRUE

wouldOrderBeFilled(s, isBid, price, quantity) ==
    IF price <= 0 \/ quantity = 0 THEN FALSE
    ELSE IF isBid
         THEN LET bestAsk == s.marketState_.lastBookTop.top_level.ask_nanos
              IN IF bestAsk <= 0 \/ bestAsk = INT64_MAX THEN FALSE ELSE price >= bestAsk
         ELSE LET bestBid == s.marketState_.lastBookTop.top_level.bid_nanos
              IN IF bestBid <= 0 \/ bestBid = INT64_MAX THEN FALSE ELSE price <= bestBid

EraseOrder_keep(s, orderId) == s

EraseOrder(s, orderId) ==
    [s EXCEPT !.activeOrders_ = MapErase(@, orderId), !.erased = @ \cup {orderId}]

\* the price an order fills at: the opposing side of the top it is matched against
fillPriceOf_sameSide(isBid, top) ==
    IF isBid THEN top.top_level.bid_nanos ELSE top.top_level.ask_nanos

fillPriceOf(isBid, top) ==
    IF isBid THEN top.top_level.ask_nanos ELSE top.top_level.bid_nanos

\* bool isFullyFilled of processFill
isFullyFilled_strict(filledQuantity, totalQuantity) == filledQuantity > totalQuantity

isFullyFilled_never(filledQuantity, totalQuantity) == FALSE

isFullyFilled(filledQuantity, totalQuantity) == filledQuantity >= totalQuantity

RECURSIVE processFill(_, _, _, _, _, _)
RECURSIVE processAction(_, _, _)
\* The repository holds two variants of the simulator, which differ in the
\* validation of a book top and in the amount a fill moves the cash flow by
\* (and in the queue mode, which only the newer one has).
Newer == "src/unnamed/part_000"
Older == "src/fill_simulator.cpp"

\* int64_t cost (proceeds) of a fill and what cashFlow_ moves by
cost_older(fillPrice, fillQty) == ((fillPrice * fillQty) \div 1000) * 1000

cost(fillPrice, fillQty) == fillPrice * fillQty

cashMove(s, fillPrice, fillQty) ==
    IF s.build = Older THEN cost_older(fillPrice, fillQty) ELSE cost(fillPrice, fillQty)

\* position_ after a fill
positionAfter_absolute(position, fillQty, isBid) == position + fillQty

positionAfter(position, fillQty, isBid) ==
    IF isBid THEN position + fillQty ELSE position - fillQty

RECURSIVE processActions(_, _, _, _)

\* The loop over a callback's returned actions (the same in processBookTop,
\* processBookFill and processFill): stamp each action, then process it.
processActions(s, actions, eventTs, top) ==
    IF actions = <<>> THEN s
    ELSE LET action == Head(actions)
             exchangeReceiveTime == applyExchangeLatency(s, eventTs)
             delayedAction == [action EXCEPT
                                 !.sent_ts = IF action.sent_ts = 0 THEN eventTs ELSE @,
                                 !.md_ts = exchangeReceiveTime]
             s1 == [s EXCEPT !.latencyStats_.totalStrategyToExchangeLatencyNs =
                                 @ + s.exchangeLatencyNs_]
         IN processActions(processAction(s1, delayedAction, top), Tail(actions), eventTs, top)

\* if (fillPrice <= 0 || fillPrice == INT64_MAX || fillQty == 0)
invalidFill_priceOnly(fillPrice, fillQty) == fillPrice <= 0 \/ fillPrice = INT64_MAX

invalidFill(fillPrice, fillQty) ==
    fillPrice <= 0 \/ fillPrice = INT64_MAX \/ fillQty = 0

processFill(s, orderId, fillPrice, fillQty, isBid, fillNotificationTime0) ==
    IF orderId \notin DOMAIN s.activeOrders_ THEN s
    ELSE IF invalidFill(fillPrice, fillQty) THEN s
    ELSE
      LET fillNotificationTime ==
              IF fillNotificationTime0 = 0
              THEN applyExchangeLatency(s, s.marketState_.lastBookTop.ts)
              ELSE fillNotificationTime0
          s1 == IF fillNotificationTime > 0
                THEN [s EXCEPT !.latencyStats_.totalExchangeToNotificationLatencyNs =
                                   @ + s.exchangeLatencyNs_]
                ELSE s
          symbolId == s.activeOrders_[orderId].symbolId
          totalQuantity == s.activeOrders_[orderId].quantity
          filledQuantity == s.activeOrders_[orderId].filledQuantity + fillQty
          s2 == [s1 EXCEPT !.activeOrders_[orderId].filledQuantity = filledQuantity]
          s3 == writeOrderRecord(s2, OrderRecord(fillNotificationTime, 3, orderId, symbolId,
                                                 fillPrice, fillQty, isBid))
          s4 == IF isBid
                THEN [s3 EXCEPT !.position_ = positionAfter(@, fillQty, isBid),
                                !.cashFlow_ = @ - cashMove(s, fillPrice, fillQty),
                                !.totalBuyVolume_ = @ + fillQty]
                ELSE [s3 EXCEPT !.position_ = positionAfter(@, fillQty, isBid),
                                !.cashFlow_ = @ + cashMove(s, fillPrice, fillQty),
                                !.totalSellVolume_ = @ + fillQty]
          s5 == [s4 EXCEPT !.totalOrdersFilled_ = @ + 1]
          s6 == IF isFullyFilled(filledQuantity, totalQuantity)
                THEN EraseOrder(s5, orderId) ELSE s5
          notificationBookTop == [s.marketState_.lastBookTop EXCEPT !.ts = fillNotificationTime]
          \* strategy_->onOrderFilled(orderId, fillPrice, fillQty, isBid)
          actions == IF s6.script = <<>> THEN <<>> ELSE Head(s6.script)
          s7 == [LogCall(s6, "onOrderFilled", orderId, fillNotificationTime, NoAction, actions)
                   EXCEPT !.script = IF @ = <<>> THEN @ ELSE Tail(@),
                          !.depth = @ + 1]
          s8 == processActions(s7, actions, fillNotificationTime, notificationBookTop)
      IN [s8 EXCEPT !.depth = s.depth]

\* the record of a CANCEL, from the values saved before the erase
cancelRecord_ofAction(action, o) ==
    OrderRecord(action.md_ts, 2, action.orderId, action.symbolId, action.price,
                action.quantity, action.isBid)

cancelRecord_asReplace(action, o) ==
    OrderRecord(action.md_ts, 4, action.orderId, o.symbolId, o.price, o.quantity, o.isBid)

cancelRecord(action, o) ==
    OrderRecord(action.md_ts, 2, action.orderId, o.symbolId, o.price, o.quantity, o.isBid)

\* the in-place update of a REPLACE
replaceOrder_keepQuantity(o, action) ==
    [o EXCEPT !.price = action.price,
              !.sent_ts = IF action.sent_ts > 0 THEN action.sent_ts ELSE @,
              !.md_ts = IF action.md_ts > 0 THEN action.md_ts ELSE @]

replaceOrder(o, action) ==
    [o EXCEPT !.price = action.price,
              !.quantity = action.quantity,
              !.sent_ts = IF action.sent_ts > 0 THEN action.sent_ts ELSE @,
              !.md_ts = IF action.md_ts > 0 THEN action.md_ts ELSE @]

\* the post-only branch of an ADD that would cross
cancelPostOnly_keep(s, action) ==
    writeOrderRecord(s, OrderRecord(action.md_ts, 2, action.orderId, action.symbolId,
                                    action.price, action.quantity, action.isBid))

cancelPostOnly(s, action) ==
    writeOrderRecord(EraseOrder(s, action.orderId),
        OrderRecord(action.md_ts, 2, action.orderId, action.symbolId,
                    action.price, action.quantity, action.isBid))

\* whose side and post-only flag decide what happens to an order that would
\* be filled at once: the action's for an ADD, the stored order's (it->second)
\* for a REPLACE
crossingOrder_ofAction(s, action) == action

crossingOrder(s, action) ==
    IF action.type = "ADD" THEN action ELSE s.activeOrders_[action.orderId]

processAction(s, action, top) ==
    LET sc == LogCall(s, "processAction", action.orderId, action.md_ts, action, <<>>)
        s0 == IF /\ action.type \in {"ADD", "REPLACE"}
                 /\ wouldOrderBeFilled(sc, action.isBid, action.price, action.quantity)
              THEN [sc EXCEPT !.latencyStats_.totalExchangeToNotificationLatencyNs =
                                  @ + s.exchangeLatencyNs_]
              ELSE sc
        known == action.orderId \in DOMAIN s.activeOrders_
        \* the order as it was before a REPLACE
        o == s.activeOrders_[action.orderId]
        \* the side and the post-only flag the crossing check goes by
        isBid == crossingOrder(s, action).isBid
        isPostOnly == crossingOrder(s, action).isPostOnly
        crossing == /\ action.type = "ADD" \/ (action.type = "REPLACE" /\ known)
                    /\ wouldOrderBeFilled(s, isBid, action.price, action.quantity)
        \* the order book-keeping and the first record of the action
        booked ==
          CASE action.type = "ADD" ->
               writeOrderRecord(
                   [s0 EXCEPT
                      !.activeOrders_ = MapPut(@, action.orderId, OrderInfo(action)),
                      !.inserted = IF known THEN @ ELSE @ \cup {action.orderId},
                      !.totalOrdersPlaced_ = @ + 1],
                   OrderRecord(action.md_ts, 1, action.orderId, action.symbolId,
                               action.price, action.quantity, action.isBid))
            [] action.type = "CANCEL" /\ known ->
               writeOrderRecord(EraseOrder(s0, action.orderId), cancelRecord(action, o))
            [] action.type = "REPLACE" /\ known ->
               writeOrderRecord(
                   [s0 EXCEPT !.activeOrders_[action.orderId] = replaceOrder(o, action)],
                   ReplaceRecord(action.md_ts, action.orderId, o.symbolId, o.price,
                                 action.price, o.quantity, action.quantity, o.isBid))
            [] OTHER -> s0
        \* the order that would be filled immediately
        done ==
          IF ~crossing THEN booked
          ELSE IF isPostOnly
          THEN IF action.type = "ADD" THEN cancelPostOnly(booked, action)
               \* REPLACE: the record's symbol_id and is_bid are read through the
               \* iterator after the erase: whatever the freed node holds
               ELSE writeOrderRecord(
                        Log(EraseOrder(booked, action.orderId), "freed", action.orderId, 0),
                        OrderRecord(action.md_ts, 2, action.orderId, s.freed.symbolId,
                                    action.price, action.quantity, s.freed.isBid))
          ELSE processFill(booked, action.orderId, fillPriceOf(isBid, top),
                           action.quantity, isBid, applyExchangeLatency(s, action.md_ts))
    IN Log(done, "return", action.orderId, action.md_ts)

\* uint64_t fillNotificationTime of the re-evaluation loop
restingFillTime_ofTop(s, order) == applyExchangeLatency(s, s.marketState_.lastBookTop.ts)

restingFillTime(s, order) == applyExchangeLatency(s, order.md_ts)

\* uint64_t subtraction: a wrapped difference is a huge value
Minus64(a, b) == IF a >= b THEN a - b ELSE INT64_MAX

(***************************************************************************)
(* The re-evaluation loop of processBookTop over activeOrders_, an         *)
(* unordered_map.  rest is what the iterator has still to visit, in the    *)
(* map's iteration order.  A fill erases the current node and the loop     *)
(* goes on from nextIt; when the fill's onOrderFilled actions destroyed    *)
(* the node nextIt points at, put the filled id back (the loop then        *)
(* increments the erased iterator) or inserted a node (a rehash            *)
(* invalidates nextIt, and where a new node lands is unspecified), what    *)
(* the loop visits next is not determined by the program: it is cont.      *)
(* filledQuantity never exceeds quantity, so the uint32_t difference       *)
(* remainingQty does not wrap.                                             *)
(***************************************************************************)
RECURSIVE reEvaluate(_, _, _, _)
reEvaluate(s, top, rest, cont) ==
    IF rest = <<>> THEN s
    ELSE
      LET orderId == Head(rest) IN
      IF orderId \notin DOMAIN s.activeOrders_ THEN reEvaluate(s, top, Tail(rest), cont)
      ELSE
        LET order == s.activeOrders_[orderId]
            remainingQty == order.quantity - order.filledQuantity
        IN
        IF ~wouldOrderBeFilled(s, order.isBid, order.price, remainingQty)
        THEN reEvaluate(s, top, Tail(rest), cont)
        ELSE
          LET fillNotificationTime == restingFillTime(s, order)
              sv == Log(s, "fillResting", orderId, fillNotificationTime)
              s1 == processFill([sv EXCEPT !.inserted = {}, !.erased = {}], orderId,
                                fillPriceOf(order.isBid, top), remainingQty, order.isBid,
                                fillNotificationTime)
              found == orderId \in DOMAIN s1.activeOrders_
              dangling == \/ found /\ orderId \in s1.erased
                          \/ ~found /\ Tail(rest) # <<>> /\ Head(Tail(rest)) \in s1.erased
              live == SelectSeq(Tail(rest), LAMBDA x : x \notin s1.erased)
          IN IF dangling \/ s1.inserted # {}
             THEN reEvaluate(Log(s1, "nextIt", orderId, 0), top, cont, cont)
             ELSE reEvaluate(s1, top, live, cont)

\* if (lastProcessedTime > 0 && (bookTop.ts - lastProcessedTime) < MIN_PROCESSING_INTERVAL)
tooSoon_sinceAny(s, top) ==
    Minus64(top.ts, s.lastProcessedTime) < MIN_PROCESSING_INTERVAL

tooSoon(s, top) ==
    /\ s.lastProcessedTime > 0
    /\ Minus64(top.ts, s.lastProcessedTime) < MIN_PROCESSING_INTERVAL

\* the validation of a book top
invalidTop_noBound(top) ==
    \/ top.top_level.bid_nanos <= 0
    \/ top.top_level.ask_nanos <= 0
    \/ top.top_level.bid_nanos >= top.top_level.ask_nanos

invalidTop_askOnly(top) ==
    \/ top.top_level.ask_nanos <= 0
    \/ top.top_level.ask_nanos > MAX_REASONABLE_PRICE

invalidTop(top) ==
    \/ top.top_level.bid_nanos <= 0
    \/ top.top_level.ask_nanos <= 0
    \/ top.top_level.bid_nanos >= top.top_level.ask_nanos
    \/ top.top_level.bid_nanos > MAX_REASONABLE_PRICE
    \/ top.top_level.ask_nanos > MAX_REASONABLE_PRICE

invalidTop_older(top) ==
    \/ top.top_level.bid_nanos <= 0
    \/ top.top_level.ask_nanos <= 0
    \/ top.top_level.bid_nanos >= top.top_level.ask_nanos
    \/ top.top_level.bid_nanos = INT64_MAX
    \/ top.top_level.ask_nanos = INT64_MAX

\* what processBookTop does with the strategy after it stored the top: the
\* callback, its actions, then the pass over the active orders
runStrategy_passFirst(s, top, oracle) ==
    LET delayedTs == applyMdLatency(s, top.ts)
        rest == SelectSeq(oracle.order, LAMBDA x : x \in DOMAIN s.activeOrders_)
        s1 == reEvaluate(Log(s, "reEvaluate", 0, top.ts), top, rest, oracle.cont)
        s2 == LogCall(s1, "onBookTopUpdate", 0, delayedTs, NoAction, oracle.actions)
    IN processActions(s2, oracle.actions, delayedTs, top)

runStrategy(s, top, oracle) ==
    LET delayedTs == applyMdLatency(s, top.ts)
        \* strategy_->onBookTopUpdate(delayedBookTop)
        s1 == LogCall(s, "onBookTopUpdate", 0, delayedTs, NoAction, oracle.actions)
        s2 == processActions(s1, oracle.actions, delayedTs, top)
        rest == SelectSeq(oracle.order, LAMBDA x : x \in DOMAIN s2.activeOrders_)
    IN reEvaluate(Log(s2, "reEvaluate", 0, top.ts), top, rest, oracle.cont)

processBookTop(s, top, oracle) ==
    IF tooSoon(s, top) THEN s
    ELSE IF (IF s.build = Older THEN invalidTop_older(top) ELSE invalidTop(top)) THEN s
    ELSE
      LET midPrice == (top.top_level.bid_nanos + top.top_level.ask_nanos) \div 2
          bids == MapPut(MapPut(MapPut(s.marketState_.bidLevels,
                      top.top_level.bid_nanos, top.top_level.bid_qty),
                      top.second_level.bid_nanos, top.second_level.bid_qty),
                      top.third_level.bid_nanos, top.third_level.bid_qty)
          asks == MapPut(MapPut(MapPut(s.marketState_.askLevels,
                      top.top_level.ask_nanos, top.top_level.ask_qty),
                      top.second_level.ask_nanos, top.second_level.ask_qty),
                      top.third_level.ask_nanos, top.third_level.ask_qty)
          s1 == Log([s EXCEPT !.lastProcessedTime = top.ts,
                              !.marketState_ = [lastBookTop |-> top,
                                                lastValidMidPrice |-> midPrice,
                                                bidLevels |-> bids, askLevels |-> asks]],
                    "marketState", 0, top.ts)
          s2 == [s1 EXCEPT !.latencyStats_.totalMdEvents = @ + 1,
                           !.latencyStats_.totalMdToStrategyLatencyNs =
                               @ + s.strategyMdLatencyNs_]
      IN runStrategy(s2, top, oracle)

processBookFill(s, fill, oracle) ==
    LET delayedTs == applyMdLatency(s, fill.ts)
        s1 == [s EXCEPT !.latencyStats_.totalMdEvents = @ + 1,
                        !.latencyStats_.totalMdToStrategyLatencyNs =
                            @ + s.strategyMdLatencyNs_]
        \* strategy_->onFill(delayedFill)
        s2 == LogCall(s1, "onFill", 0, delayedTs, NoAction, oracle.actions)
    IN processActions(s2, oracle.actions, delayedTs, s.marketState_.lastBookTop)

(***************************************************************************)
(* What the environment decides in one dispatch: the action list the       *)
(* market-data callback returns (actions), the lists the onOrderFilled     *)
(* calls return, in call order (script), the iteration order of the        *)
(* unordered_map (order), and the two outcomes of undefined behaviour      *)
(* (cont, freed).                                                          *)
(***************************************************************************)
Add(id, price, qty, isBid, isPostOnly) == OrderAction("ADD", id, 7, 0, price, qty, isBid, isPostOnly)
Cancel(id) == OrderAction("CANCEL", id, 7, 0, 0, 0, FALSE, FALSE)
Replace(id, price, qty) == OrderAction("REPLACE", id, 7, 0, price, qty, FALSE, FALSE)

\* one-action lists a market-data callback returns
Actions ==
    {Add(1, 100, 1, b, po) : b \in BOOLEAN, po \in BOOLEAN}
    \cup {Add(2, 100, 1, TRUE, FALSE), Add(2, 100, 1, FALSE, FALSE), Add(1, 101, 1, TRUE, FALSE),
          Add(1, 100, 0, TRUE, FALSE), Add(1, 0, 1, TRUE, FALSE),
          Cancel(1), Cancel(2),
          Replace(1, 101, 2), Replace(1, 99, 2), Replace(1, 100, 0), Replace(2, 100, 2)}
\* longer lists
Lists ==
    { <<Add(1, 100, 1, TRUE, FALSE), Add(2, 100, 1, TRUE, FALSE)>>,
      <<Add(2, 100, 1, FALSE, TRUE), Add(1, 100, 1, FALSE, FALSE)>>,
      <<Add(2, 100, 2, TRUE, TRUE), Replace(2, 101, 1)>>,
      <<Add(2, 101, 1, TRUE, FALSE), Cancel(1)>>,
      <<Replace(1, 99, 2), Cancel(1)>> }
\* actions of the strategy of the driver specifications
PlainActions == {Add(1, 100, 1, TRUE, FALSE), Add(1, 100, 1, FALSE, TRUE), Cancel(1)}
\* actions onOrderFilled returns
NestedActions == {Add(1, 100, 1, TRUE, FALSE), Add(2, 101, 1, TRUE, FALSE), Cancel(2), Replace(2, 99, 1)}

SeqsUpTo(S, n) == UNION {[1..k -> S] : k \in 0..n}
Responses == SeqsUpTo(Actions, 1) \cup Lists
Scripts == SeqsUpTo({<<a>> : a \in NestedActions}, MaxNested)
Orders == {p \in [1..Cardinality(Ids) -> Ids] : \A i, j \in DOMAIN p : p[i] = p[j] => i = j}
Conts == SeqsUpTo(Ids, Cardinality(Ids))
Freeds == [symbolId : SymbolIds, isBid : BOOLEAN]

Quiet == [actions |-> <<>>, script |-> <<>>, order |-> <<1, 2>>,
          cont |-> <<>>, freed |-> [symbolId |-> 7, isBid |-> FALSE], build |-> Newer]

Consulted(s, ev) == \E i \in DOMAIN s.trace : s.trace[i].ev = ev

(***************************************************************************)
(* The outcomes of dispatching an event, over all oracles.  A part of the  *)
(* oracle the dispatch does not consult does not change its result, so it  *)
(* is enumerated only when the dispatch with the parts chosen so far       *)
(* consults it (the trace tells): the callback's actions when the strategy *)
(* is called (stage 0), the script and the iteration order when a fill     *)
(* happens (stage 1), cont and freed when they are read (stage 2).         *)
(***************************************************************************)
RECURSIVE Explore(_, _, _, _, _, _)
RECURSIVE Decide(_, _, _, _, _, _, _)

Explore(kind, event, oracle, stage, responses, scripts) ==
    Decide(kind, event, oracle, stage, responses, scripts,
           IF kind = "top" THEN processBookTop(Sim(oracle), event, oracle)
                           ELSE processBookFill(Sim(oracle), event, oracle))

Decide(kind, event, oracle, stage, responses, scripts, r) ==
    IF stage = 0
    THEN IF r.trace = <<>> THEN {r}
         ELSE UNION {Explore(kind, event, [oracle EXCEPT !.actions = a], 1, responses, scripts) :
                        a \in responses}
    ELSE IF stage = 1 /\ Consulted(r, "onOrderFilled")
    THEN UNION {Explore(kind, event, [oracle EXCEPT !.script = sc, !.order = od], 2,
                        responses, scripts) : sc \in scripts, od \in Orders}
    ELSE IF stage < 3 /\ Consulted(r, "nextIt")
    THEN UNION {Explore(kind, event, [oracle EXCEPT !.cont = c, !.freed = f], 3,
                        responses, scripts) : c \in Conts, f \in Freeds}
    ELSE IF stage < 3 /\ Consulted(r, "freed")
    THEN UNION {Explore(kind, event, [oracle EXCEPT !.freed = f], 3, responses, scripts) :
                   f \in Freeds}
    ELSE {r}

Outcomes(kind, event, responses, scripts) == Explore(kind, event, Quiet, 0, responses, scripts)

(***************************************************************************)
(* runSimulation                                                           *)
(***************************************************************************)
InitRun ==
    /\ marketState_ = [lastBookTop |-> ZeroTop, lastValidMidPrice |-> 0,
                       bidLevels |-> <<>>, askLevels |-> <<>>]
    /\ activeOrders_ = <<>>
    /\ position_ = 0 /\ cashFlow_ = 0
    /\ totalOrdersPlaced_ = 0 /\ totalOrdersFilled_ = 0
    /\ totalBuyVolume_ = 0 /\ totalSellVolume_ = 0
    /\ latencyStats_ = [totalMdEvents |-> 0, totalMdToStrategyLatencyNs |-> 0,
                        totalStrategyToExchangeLatencyNs |-> 0,
                        totalExchangeToNotificationLatencyNs |-> 0]
    /\ \E l \in Latencies : strategyMdLatencyNs_ = l[1] /\ exchangeLatencyNs_ = l[2]
    /\ lastProcessedTime = 0
    /\ outputFile_ = <<>>
    /\ trace = <<>>
    /\ pc = "readFirstTop"
    /\ bookTop = ZeroTop /\ bookFill = [ts |-> 0]
    /\ hasMoreTops = FALSE /\ hasMoreFills = FALSE
    /\ processedTops = 0 /\ processedFills = 0
    /\ topsRead = 0 /\ fillsRead = 0
    /\ dispatched = [kind |-> "none", ts |-> 0]

NoShadow == <<>>
NoQueueRun == <<>>
Init == InitRun /\ shadow = NoShadow /\ queueRun = NoQueueRun

\* topsFile.read(&bookTop): the next record of a file whose timestamps do not
\* decrease, or the end of the file
ReadTop(maxTops, maxEvents, times, levels) ==
    /\ pc \in {"readFirstTop", "readTop"}
    /\ \/ /\ topsRead < maxTops /\ topsRead + fillsRead < maxEvents
          /\ \E ts \in times, lvl \in levels :
               /\ topsRead > 0 => ts >= bookTop.ts
               /\ bookTop' = BookTopT(ts, lvl)
          /\ hasMoreTops' = TRUE
          /\ topsRead' = topsRead + 1
       \/ /\ hasMoreTops' = FALSE
          /\ UNCHANGED <<bookTop, topsRead>>
    /\ pc' = IF pc = "readFirstTop" THEN "readFirstFill" ELSE "loop"
    /\ UNCHANGED <<simVars, bookFill, hasMoreFills, processedTops, processedFills,
                   fillsRead, dispatched>>

ReadFill(maxFills, maxEvents, times) ==
    /\ pc \in {"readFirstFill", "readFill"}
    /\ \/ /\ fillsRead < maxFills /\ topsRead + fillsRead < maxEvents
          /\ \E ts \in times :
               /\ fillsRead > 0 => ts >= bookFill.ts
               /\ bookFill' = [ts |-> ts]
          /\ hasMoreFills' = TRUE
          /\ fillsRead' = fillsRead + 1
       \/ /\ hasMoreFills' = FALSE
          /\ UNCHANGED <<bookFill, fillsRead>>
    /\ pc' = "loop"
    /\ UNCHANGED <<simVars, bookTop, hasMoreTops, processedTops, processedFills,
                   topsRead, dispatched>>

\* if (!hasMoreFills || (hasMoreTops && bookTop.ts <= bookFill.ts))
topIsNext_strict == ~hasMoreFills \/ (hasMoreTops /\ bookTop.ts < bookFill.ts)

topIsNext == ~hasMoreFills \/ (hasMoreTops /\ bookTop.ts <= bookFill.ts)

DispatchTop(responses, scripts) ==
    /\ pc = "loop"
    /\ hasMoreTops \/ hasMoreFills
    /\ topIsNext
    /\ \E s \in Outcomes("top", bookTop, responses, scripts) : SetSim(s)
    /\ processedTops' = processedTops + 1
    /\ dispatched' = [kind |-> "top", ts |-> bookTop.ts]
    /\ pc' = "readTop"
    /\ UNCHANGED <<bookTop, bookFill, hasMoreTops, hasMoreFills, processedFills,
                   topsRead, fillsRead>>

DispatchFill(responses, scripts) ==
    /\ pc = "loop"
    /\ hasMoreTops \/ hasMoreFills
    /\ ~topIsNext
    /\ \E s \in Outcomes("fill", bookFill, responses, scripts) : SetSim(s)
    /\ processedFills' = processedFills + 1
    /\ dispatched' = [kind |-> "fill", ts |-> bookFill.ts]
    /\ pc' = "readFill"
    /\ UNCHANGED <<bookTop, bookFill, hasMoreTops, hasMoreFills, processedTops,
                   topsRead, fillsRead>>

Finish ==
    /\ pc = "loop"
    /\ ~(hasMoreTops \/ hasMoreFills)
    /\ pc' = "done"
    /\ UNCHANGED <<simVars, bookTop, bookFill, hasMoreTops, hasMoreFills, processedTops,
                   processedFills, topsRead, fillsRead, dispatched>>

\* Any strategy, on a short run over valid tops that the coalescer lets through
Next ==
    \/ ReadTop(MaxEvents, MaxEvents, Times, ValidLevels)
    \/ ReadFill(MaxEvents, MaxEvents, Times)
    \/ DispatchTop(Responses, Scripts)
    \/ DispatchFill(SeqsUpTo(PlainActions, 1), Scripts)
    \/ Finish

Spec == Init /\ [][Next]_vars

\* A strategy that places and cancels one order and never answers a fill, on
\* tops of every kind
NextFilter ==
    \/ ReadTop(FilterMaxEvents, FilterMaxEvents, Times, TopLevels)
    \/ ReadFill(FilterMaxEvents, FilterMaxEvents, Times)
    \/ DispatchTop(SeqsUpTo(PlainActions, 1), {<<>>})
    \/ DispatchFill({<<>>}, {<<>>})
    \/ Finish

SpecFilter == Init /\ [][NextFilter]_vars

\* A strategy that does nothing, on longer files with timestamps around the
\* coalescer's interval
NextMerge ==
    \/ ReadTop(MergeMaxTops, MergeMaxTops + MergeMaxFills, TsSet, MergeLevels)
    \/ ReadFill(MergeMaxFills, MergeMaxTops + MergeMaxFills, TsSet)
    \/ DispatchTop({<<>>}, {<<>>})
    \/ DispatchFill({<<>>}, {<<>>})
    \/ Finish

SpecMerge == Init /\ [][NextMerge]_vars

(***************************************************************************)
(* The chain processFill -> onOrderFilled -> processAction -> processFill  *)
(* one call at a time.  In the dispatch actions above the strategy's       *)
(* answers to the fills of one event are a finite script; here every       *)
(* invocation of onOrderFilled is a step of its own, so the answers are    *)
(* not bounded in number.  The strategy places bids at 101, which cross    *)
(* every top of ValidLevels and fill at once: the active set is empty      *)
(* whenever a callback is pending, so what the frames below the callback   *)
(* still have to do (the rest of their action loops, the re-evaluation     *)
(* pass) changes nothing, and the dispatch as computed with an empty       *)
(* answer is the state in which the callback is pending.                   *)
(***************************************************************************)
ChainAdd == Add(1, 101, 1, TRUE, FALSE)

\* the last call of onOrderFilled, the one whose answer is pending
PendingFill == trace[CHOOSE i \in DOMAIN trace :
                       /\ trace[i].ev = "onOrderFilled"
                       /\ \A j \in DOMAIN trace : trace[j].ev = "onOrderFilled" => j <= i]

\* processBookTop up to the first call of onOrderFilled
DispatchTopToCallback(responses) ==
    /\ pc = "loop"
    /\ hasMoreTops \/ hasMoreFills
    /\ topIsNext
    /\ \E s \in Outcomes("top", bookTop, responses, {<<>>}) :
          /\ SetSim(s)
          /\ pc' = IF Consulted(s, "onOrderFilled") THEN "onOrderFilled" ELSE "readTop"
    /\ processedTops' = processedTops + 1
    /\ dispatched' = [kind |-> "top", ts |-> bookTop.ts]
    /\ UNCHANGED <<bookTop, bookFill, hasMoreTops, hasMoreFills, processedFills,
                   topsRead, fillsRead>>

\* onOrderFilled returns no action: every frame returns, the dispatch is over
OnOrderFilledReturnsNone ==
    /\ pc = "onOrderFilled"
    /\ pc' = "readTop"
    /\ UNCHANGED <<simVars, bookTop, bookFill, hasMoreTops, hasMoreFills, processedTops,
                   processedFills, topsRead, fillsRead, dispatched>>

\* onOrderFilled returns an action: processFill stamps it and calls
\* processAction, one frame deeper, against the notification top
OnOrderFilledReturnsAction(answers) ==
    /\ pc = "onOrderFilled"
    /\ PendingFill.depth + 1 < MaxStack
    /\ \E a \in answers :
         LET fillNotificationTime == PendingFill.ts
             notificationBookTop == [marketState_.lastBookTop EXCEPT !.ts = fillNotificationTime]
         IN \E s \in {processActions([Sim(Quiet) EXCEPT !.depth = PendingFill.depth + 1],
                                     <<a>>, fillNotificationTime, notificationBookTop)} :
               /\ SetSim(s)
               /\ pc' = IF Consulted(s, "onOrderFilled") THEN "onOrderFilled" ELSE "readTop"
    /\ UNCHANGED <<bookTop, bookFill, hasMoreTops, hasMoreFills, processedTops,
                   processedFills, topsRead, fillsRead, dispatched>>

\* the same when the call stack has no room for another frame
StackOverflow ==
    /\ pc = "onOrderFilled"
    /\ PendingFill.depth + 1 >= MaxStack
    /\ pc' = "stackOverflow"
    /\ UNCHANGED <<simVars, bookTop, bookFill, hasMoreTops, hasMoreFills, processedTops,
                   processedFills, topsRead, fillsRead, dispatched>>

\* A strategy that answers a top and a fill with a crossing bid or with nothing
NextChain ==
    \/ ReadTop(ChainMaxEvents, ChainMaxEvents, Times, ValidLevels)
    \/ ReadFill(ChainMaxEvents, ChainMaxEvents, Times)
    \/ DispatchTopToCallback({<<>>, <<ChainAdd>>})
    \/ DispatchFill({<<>>}, {<<>>})
    \/ OnOrderFilledReturnsNone
    \/ OnOrderFilledReturnsAction({ChainAdd})
    \/ StackOverflow
    \/ Finish

SpecChain == Init /\ [][NextChain]_vars

(***************************************************************************)
(* The older variant of the simulator.  Its prices are kept in nanos (it   *)
(* has no MAX_REASONABLE_PRICE, so no constant of the model depends on the *)
(* unit), which makes the three digits its cash flow drops visible.        *)
(***************************************************************************)
OlderLevels == {Level(1499, 1501, 5, 5), Level(1000, 2000, 5, 5)}
OlderActions == {Add(1, 1501, 1, TRUE, FALSE), Add(1, 1499, 2, FALSE, FALSE),
                 Add(2, 2000, 2, TRUE, FALSE), Add(2, 1500, 1, TRUE, FALSE)}

DispatchTopOlder(responses, scripts) ==
    /\ pc = "loop"
    /\ hasMoreTops \/ hasMoreFills
    /\ topIsNext
    /\ \E s \in Explore("top", bookTop, [Quiet EXCEPT !.build = Older], 0, responses, scripts) :
          SetSim(s)
    /\ processedTops' = processedTops + 1
    /\ dispatched' = [kind |-> "top", ts |-> bookTop.ts]
    /\ pc' = "readTop"
    /\ UNCHANGED <<bookTop, bookFill, hasMoreTops, hasMoreFills, processedFills,
                   topsRead, fillsRead>>

DispatchFillOlder(responses, scripts) ==
    /\ pc = "loop"
    /\ hasMoreTops \/ hasMoreFills
    /\ ~topIsNext
    /\ \E s \in Explore("fill", bookFill, [Quiet EXCEPT !.build = Older], 0, responses, scripts) :
          SetSim(s)
    /\ processedFills' = processedFills + 1
    /\ dispatched' = [kind |-> "fill", ts |-> bookFill.ts]
    /\ pc' = "readFill"
    /\ UNCHANGED <<bookTop, bookFill, hasMoreTops, hasMoreFills, processedTops,
                   topsRead, fillsRead>>

NextOlder ==
    \/ ReadTop(OlderMaxEvents, OlderMaxEvents, Times, OlderLevels)
    \/ ReadFill(OlderMaxEvents, OlderMaxEvents, Times)
    \/ DispatchTopOlder(SeqsUpTo(OlderActions, 1), {<<>>})
    \/ DispatchFillOlder(SeqsUpTo(OlderActions, 1), {<<>>})
    \/ Finish

SpecOlder == Init /\ [][NextOlder]_vars

(***************************************************************************)
(* Two simulators side by side: the second one is constructed with one of  *)
(* the latencies larger by LatencyShift and is given the same records and  *)
(* the same strategy, that is the same oracle, as the first.               *)
(***************************************************************************)
LatencyShift == 1000

InitLatency ==
    /\ InitRun
    /\ queueRun = NoQueueRun
    /\ \E d \in {<<LatencyShift, 0>>, <<0, LatencyShift>>} :
          shadow = [f \in Fieldnames |->
                      CASE f = "marketState_" -> marketState_
                        [] f = "activeOrders_" -> activeOrders_
                        [] f = "latencyStats_" -> latencyStats_
                        [] f = "strategyMdLatencyNs_" -> strategyMdLatencyNs_ + d[1]
                        [] f = "exchangeLatencyNs_" -> exchangeLatencyNs_ + d[2]
                        [] f = "outputFile_" -> outputFile_
                        [] OTHER -> 0]

DispatchTopBoth(responses, scripts) ==
    /\ pc = "loop"
    /\ hasMoreTops \/ hasMoreFills
    /\ topIsNext
    /\ \E s \in Outcomes("top", bookTop, responses, scripts) :
          /\ SetFields(s)
          /\ shadow' = FieldsOf(processBookTop(SimShadow(s.oracle), bookTop, s.oracle))
          /\ queueRun' = queueRun
    /\ processedTops' = processedTops + 1
    /\ dispatched' = [kind |-> "top", ts |-> bookTop.ts]
    /\ pc' = "readTop"
    /\ UNCHANGED <<bookTop, bookFill, hasMoreTops, hasMoreFills, processedFills,
                   topsRead, fillsRead>>

DispatchFillBoth(responses, scripts) ==
    /\ pc = "loop"
    /\ hasMoreTops \/ hasMoreFills
    /\ ~topIsNext
    /\ \E s \in Outcomes("fill", bookFill, responses, scripts) :
          /\ SetFields(s)
          /\ shadow' = FieldsOf(processBookFill(SimShadow(s.oracle), bookFill, s.oracle))
          /\ queueRun' = queueRun
    /\ processedFills' = processedFills + 1
    /\ dispatched' = [kind |-> "fill", ts |-> bookFill.ts]
    /\ pc' = "readFill"
    /\ UNCHANGED <<bookTop, bookFill, hasMoreTops, hasMoreFills, processedTops,
                   topsRead, fillsRead>>

NextLatency ==
    \/ ReadTop(LatencyMaxEvents, LatencyMaxEvents, Times, ValidLevels)
    \/ ReadFill(LatencyMaxEvents, LatencyMaxEvents, Times)
    \/ DispatchTopBoth(Responses, Scripts)
    \/ DispatchFillBoth(SeqsUpTo(PlainActions, 1), Scripts)
    \/ Finish

SpecLatency == InitLatency /\ [][NextLatency]_vars

(***************************************************************************)
(* runQueueSimulation: the order book is rebuilt from the book events      *)
(* file; an execute event hands a synthesized fill to processBookFill,     *)
(* and whenever an event may have changed the best level the top of the    *)
(* book is synthesized and handed to processBookTop.                       *)
(*                                                                         *)
(* A node of a level's std::list has an identity (node), which is what an  *)
(* order_ref_t's iterator refers to.  qty_t is uint32_t; the model keeps   *)
(* the wrap-around with a width of QtyBits bits.  Three reads of the       *)
(* source are undefined behaviour: the side read through the erased        *)
(* order_map iterator in replace_order, the price and side read through a  *)
(* reference to the erased order_map entry in reduce_order and in the      *)
(* execute cases (both are an input of the step, freed), and the use of a  *)
(* list iterator whose node was destroyed with its level (the run stops    *)
(* in the state "undefined").                                              *)
(***************************************************************************)
QtyModulus == 2^QtyBits
Wrap(x) == x % QtyModulus

\* a price level of a book side: total quantity and the queue of its orders
BookLevel(first, second) == [first |-> first, second |-> second]
order_t(node, order_id, qty, timestamp) ==
    [node |-> node, order_id |-> order_id, qty |-> qty, timestamp |-> timestamp]
order_ref_t(price, is_bid, order_it) == [price |-> price, is_bid |-> is_bid, order_it |-> order_it]

add_order(order_id, price, qty, is_bid) ==
    [type |-> "add_order", order_id |-> order_id, price |-> price, qty |-> qty,
     is_bid |-> is_bid]
delete_order(order_id) == [type |-> "delete_order", order_id |-> order_id]
replace_order(orig_order_id, new_order_id, price, qty) ==
    [type |-> "replace_order", orig_order_id |-> orig_order_id,
     new_order_id |-> new_order_id, price |-> price, qty |-> qty]
amend_order(order_id, new_qty) ==
    [type |-> "amend_order", order_id |-> order_id, new_qty |-> new_qty]
reduce_order(order_id, cxled_qty) ==
    [type |-> "reduce_order", order_id |-> order_id, cxled_qty |-> cxled_qty]
execute_order(order_id, traded_qty, execution_id) ==
    [type |-> "execute_order", order_id |-> order_id, traded_qty |-> traded_qty,
     execution_id |-> execution_id]
execute_order_at_price(order_id, traded_qty, execution_id, execution_price) ==
    [type |-> "execute_order_at_price", order_id |-> order_id, traded_qty |-> traded_qty,
     execution_id |-> execution_id, execution_price |-> execution_price]
clear_book == [type |-> "clear_book"]

\* the events of SpecQueue
QueueIds == {1, 2, 3}
QueueBids == {99, 100}
QueueAsks == {101, 102}
BookEvents ==
    {add_order(i, p, 5, TRUE) : i \in QueueIds, p \in QueueBids}
    \cup {add_order(i, p, 5, FALSE) : i \in QueueIds, p \in QueueAsks}
    \cup {delete_order(i) : i \in QueueIds}
    \cup {clear_book}
QueueTimes == {0, 1, 100001}
\* what the reads of destroyed order_map entries yield
QueueFreeds == [is_bid : BOOLEAN, topChanged : BOOLEAN]

sideOf(is_bid) == IF is_bid THEN "bid_book" ELSE "ask_book"

\* bid_book.rbegin()->first and ask_book.begin()->first
bestBid(bid_book) == CHOOSE p \in DOMAIN bid_book : \A q \in DOMAIN bid_book : q <= p
bestAsk(ask_book) == CHOOSE p \in DOMAIN ask_book : \A q \in DOMAIN ask_book : q >= p

\* the n-th best level of each side, or the values written when it is absent
nthBid_best(bid_book, n) ==
    IF DOMAIN bid_book = {} THEN [nanos |-> 0, qty |-> 0]
    ELSE [nanos |-> bestBid(bid_book), qty |-> bid_book[bestBid(bid_book)].first]

RECURSIVE nthBid(_, _)
nthBid(bid_book, n) ==
    IF DOMAIN bid_book = {} THEN [nanos |-> 0, qty |-> 0]
    ELSE IF n = 1 THEN [nanos |-> bestBid(bid_book), qty |-> bid_book[bestBid(bid_book)].first]
    ELSE nthBid(MapErase(bid_book, bestBid(bid_book)), n - 1)

RECURSIVE nthAsk(_, _)
nthAsk(ask_book, n) ==
    IF DOMAIN ask_book = {} THEN [nanos |-> INT64_MAX, qty |-> 0]
    ELSE IF n = 1 THEN [nanos |-> bestAsk(ask_book), qty |-> ask_book[bestAsk(ask_book)].first]
    ELSE nthAsk(MapErase(ask_book, bestAsk(ask_book)), n - 1)

nthLevel(q, n) ==
    Level(nthBid(q.bid_book, n).nanos, nthAsk(q.ask_book, n).nanos,
          nthBid(q.bid_book, n).qty, nthAsk(q.ask_book, n).qty)

updateTopLevels(q) ==
    LET top == nthLevel(q, 1)
        bidOk == [top EXCEPT !.bid_nanos = IF top.bid_nanos > MAX_REASONABLE_PRICE THEN 0 ELSE @,
                             !.bid_qty = IF top.bid_nanos > MAX_REASONABLE_PRICE THEN 0 ELSE @]
        unreasonableAsk == top.ask_nanos > MAX_REASONABLE_PRICE /\ top.ask_nanos # INT64_MAX
        askOk == [bidOk EXCEPT !.ask_nanos = IF unreasonableAsk THEN INT64_MAX ELSE @,
                               !.ask_qty = IF unreasonableAsk THEN 0 ELSE @]
    IN [q EXCEPT !.currentTop.top_level = askOk,
                 !.currentTop.second_level = nthLevel(q, 2),
                 !.currentTop.third_level = nthLevel(q, 3)]

\* what order_map.find, book.find and the use of ref.order_it come to
Lookup(q, order_id) ==
    IF order_id \notin DOMAIN q.order_map THEN "unknown"
    ELSE LET ref == q.order_map[order_id]
             book == q[sideOf(ref.is_bid)]
         IN IF ref.price \notin DOMAIN book THEN "noLevel"
            ELSE IF \E k \in DOMAIN book[ref.price].second :
                        book[ref.price].second[k].node = ref.order_it
                 THEN "live" ELSE "dangling"

\* *(ref.order_it) and list.erase(ref.order_it)
NodeAt(list, order_it) == list[CHOOSE k \in DOMAIN list : list[k].node = order_it]
EraseNode(list, order_it) == SelectSeq(list, LAMBDA o : o.node # order_it)
SetNode_requeue(list, order_it, qty, timestamp) ==
    Append(EraseNode(list, order_it),
           [NodeAt(list, order_it) EXCEPT !.qty = qty, !.timestamp = timestamp])

SetNode(list, order_it, qty, timestamp) ==
    [k \in DOMAIN list |-> IF list[k].node = order_it
                           THEN [list[k] EXCEPT !.qty = qty, !.timestamp = timestamp]
                           ELSE list[k]]

\* ref.price == currentTop.top_level.bid_nanos / ask_nanos, by side
atTop(q, ref) ==
    \/ ref.is_bid /\ ref.price = q.currentTop.top_level.bid_nanos
    \/ ~ref.is_bid /\ ref.price = q.currentTop.top_level.ask_nanos

\* if (levelIt->second.first == 0) book.erase(levelIt)
dropEmptyLevel_keep(book, price) == book

dropEmptyLevel(book, price) == IF book[price].first = 0 THEN MapErase(book, price) ELSE book

\* the insertion of add_order and of the second half of replace_order
insertOrder(q, order_id, price, qty, is_bid, ts) ==
    LET side == sideOf(is_bid)
        book == q[side]
        level == IF price \in DOMAIN book THEN book[price] ELSE BookLevel(0, <<>>)
        book1 == MapPut(book, price,
                        BookLevel(Wrap(level.first + qty),
                                  Append(level.second, order_t(q.nextNode, order_id, qty, ts))))
        q1 == [q EXCEPT ![side] = book1,
                        !.order_map = MapPut(@, order_id, order_ref_t(price, is_bid, q.nextNode)),
                        !.nextNode = @ + 1]
    IN [q1 EXCEPT !.topChanged =
          \/ q.topChanged
          \/ IF is_bid
             THEN DOMAIN q1.bid_book = {} \/ price >= bestBid(q1.bid_book)
             ELSE DOMAIN q1.ask_book = {} \/ price <= bestAsk(q1.ask_book)]

\* case book_event_type_e::add_order
addOrderEvent(q, addOrder, ts) ==
    insertOrder(q, addOrder.order_id, addOrder.price, addOrder.qty, addOrder.is_bid, ts)

\* case book_event_type_e::delete_order, and the first half of replace_order
deleteOrderEvent(q, deleteOrder) ==
    LET found == Lookup(q, deleteOrder.order_id)
        ref == q.order_map[deleteOrder.order_id]
        side == sideOf(ref.is_bid)
        book == q[side]
        level == book[ref.price]
        first == Wrap(level.first - NodeAt(level.second, ref.order_it).qty)
        book1 == MapPut(book, ref.price,
                        BookLevel(first, EraseNode(level.second, ref.order_it)))
    IN CASE found = "unknown" -> q
         [] found = "noLevel" -> [q EXCEPT !.order_map = MapErase(@, deleteOrder.order_id)]
         [] found = "dangling" -> [q EXCEPT !.undefined = TRUE]
         [] found = "live" ->
              [q EXCEPT ![side] = dropEmptyLevel(book1, ref.price),
                        !.order_map = MapErase(@, deleteOrder.order_id),
                        !.topChanged = @ \/ atTop(q, ref)]

\* case book_event_type_e::replace_order
replaceOrderEvent(q, replace, ts, freed) ==
    LET q1 == deleteOrderEvent(q, [order_id |-> replace.orig_order_id])
        isBid == IF replace.orig_order_id \in DOMAIN q.order_map
                 THEN freed.is_bid
                 ELSE replace.price > 0
    IN IF q1.undefined THEN q1
       ELSE insertOrder(q1, replace.new_order_id, replace.price, replace.qty,
                        isBid, ts)

\* case book_event_type_e::amend_order
amendOrderEvent(q, amendOrder, ts) ==
    LET found == Lookup(q, amendOrder.order_id)
        ref == q.order_map[amendOrder.order_id]
        side == sideOf(ref.is_bid)
        level == q[side][ref.price]
        oldQty == NodeAt(level.second, ref.order_it).qty
        qtyDelta == Wrap(amendOrder.new_qty - oldQty)
    IN CASE found \in {"unknown", "noLevel"} -> q
         [] found = "dangling" -> [q EXCEPT !.undefined = TRUE]
         [] found = "live" ->
              [q EXCEPT ![side][ref.price] =
                            BookLevel(Wrap(level.first + qtyDelta),
                                      SetNode(level.second, ref.order_it, amendOrder.new_qty, ts)),
                        !.topChanged = atTop(q, ref)]

\* case book_event_type_e::reduce_order
reduceOrderEvent(q, reduceOrder, ts, freed) ==
    LET found == Lookup(q, reduceOrder.order_id)
        ref == q.order_map[reduceOrder.order_id]
        side == sideOf(ref.is_bid)
        book == q[side]
        level == book[ref.price]
        qty == Wrap(NodeAt(level.second, ref.order_it).qty - reduceOrder.cxled_qty)
        first == Wrap(level.first - reduceOrder.cxled_qty)
    IN CASE found \in {"unknown", "noLevel"} -> q
         [] found = "dangling" -> [q EXCEPT !.undefined = TRUE]
         [] found = "live" ->
              IF qty = 0
              THEN [q EXCEPT ![side] = dropEmptyLevel(
                                   MapPut(book, ref.price,
                                          BookLevel(first, EraseNode(level.second, ref.order_it))),
                                   ref.price),
                             !.order_map = MapErase(@, reduceOrder.order_id),
                             !.topChanged = freed.topChanged]
              ELSE [q EXCEPT ![side][ref.price] =
                                 BookLevel(first, SetNode(level.second, ref.order_it, qty, ts))]

\* book_fill_snapshot_t as the execute cases fill it in
\* (resting_side_number_of_orders is left uninitialized)
fillOf(q, hdr, executeOrder, trade_price) ==
    LET ref == q.order_map[executeOrder.order_id]
        level == q[sideOf(ref.is_bid)][ref.price]
        order == NodeAt(level.second, ref.order_it)
    IN [ts |-> hdr.ts, seq_no |-> hdr.seq_no,
        resting_order_id |-> executeOrder.order_id, was_hidden |-> FALSE,
        trade_price |-> trade_price, trade_qty |-> executeOrder.traded_qty,
        execution_id |-> executeOrder.execution_id,
        resting_original_qty |-> order.qty,
        resting_order_remaining_qty |-> Wrap(order.qty - executeOrder.traded_qty),
        resting_order_last_update_ts |-> order.timestamp,
        resting_side_is_bid |-> ref.is_bid,
        resting_side_price |-> ref.price,
        resting_side_qty |-> level.first,
        opposing_side_price |-> IF ref.is_bid THEN nthAsk(q.ask_book, 1).nanos
                                              ELSE nthBid(q.bid_book, 1).nanos,
        opposing_side_qty |-> IF ref.is_bid THEN nthAsk(q.ask_book, 1).qty
                                            ELSE nthBid(q.bid_book, 1).qty]

\* case book_event_type_e::execute_order and execute_order_at_price, up to
\* the dispatch of the fill (q.fills) and after it
executeOrderEvent(q, executeOrder, hdr, freed) ==
    LET found == Lookup(q, executeOrder.order_id)
        ref == q.order_map[executeOrder.order_id]
        side == sideOf(ref.is_bid)
        book == q[side]
        level == book[ref.price]
        trade_price == IF executeOrder.type = "execute_order_at_price"
                       THEN executeOrder.execution_price ELSE ref.price
        fill == fillOf(q, hdr, executeOrder, trade_price)
        qty == Wrap(NodeAt(level.second, ref.order_it).qty - executeOrder.traded_qty)
        first == Wrap(level.first - executeOrder.traded_qty)
        order_ts == NodeAt(level.second, ref.order_it).timestamp
    IN CASE found \in {"unknown", "noLevel"} -> q
         [] found = "dangling" -> [q EXCEPT !.undefined = TRUE]
         [] found = "live" ->
              IF qty = 0
              THEN [q EXCEPT ![side] = dropEmptyLevel(
                                   MapPut(book, ref.price,
                                          BookLevel(first, EraseNode(level.second, ref.order_it))),
                                   ref.price),
                             !.order_map = MapErase(@, executeOrder.order_id),
                             !.topChanged = freed.topChanged,
                             !.fills = <<fill>>]
              ELSE [q EXCEPT ![side][ref.price] =
                                 BookLevel(first, SetNode(level.second, ref.order_it, qty, order_ts)),
                             !.fills = <<fill>>]

\* case book_event_type_e::clear_book
clearBookEvent(q) ==
    [q EXCEPT !.bid_book = <<>>, !.ask_book = <<>>, !.order_map = <<>>, !.topChanged = TRUE]

\* the body of the loop up to the update of the top: the books after the event
bookEvent(q, event, hdr, freed) ==
    LET q0 == [q EXCEPT !.currentTop.ts = hdr.ts, !.currentTop.seqno = hdr.seq_no,
                        !.topChanged = FALSE, !.fills = <<>>,
                        !.eventHeader = hdr, !.event = event]
    IN CASE event.type = "add_order" -> addOrderEvent(q0, event, hdr.ts)
         [] event.type = "delete_order" -> deleteOrderEvent(q0, event)
         [] event.type = "replace_order" -> replaceOrderEvent(q0, event, hdr.ts, freed)
         [] event.type = "amend_order" -> amendOrderEvent(q0, event, hdr.ts)
         [] event.type = "reduce_order" -> reduceOrderEvent(q0, event, hdr.ts, freed)
         [] event.type \in {"execute_order", "execute_order_at_price"} ->
              executeOrderEvent(q0, event, hdr, freed)
         [] event.type = "clear_book" -> clearBookEvent(q0)
         [] OTHER -> q0

\* the locals of runQueueSimulation before the loop; second_level and
\* third_level of currentTop are not initialized and are written by
\* updateTopLevels before anything reads them
QueueLocals ==
    [bid_book |-> <<>>, ask_book |-> <<>>, order_map |-> <<>>,
     currentTop |-> [ts |-> 0, seqno |-> 0,
                     top_level |-> Level(0, INT64_MAX, 0, 0),
                     second_level |-> NoLevel, third_level |-> NoLevel],
     topChanged |-> FALSE, processedEvents |-> 0,
     eventHeader |-> [ts |-> 0, seq_no |-> 0], event |-> [type |-> "invalid"],
     fills |-> <<>>, nextNode |-> 1, undefined |-> FALSE]

QueueStart ==
    /\ pc = "readFirstTop"
    /\ queueRun = NoQueueRun
    /\ queueRun' = QueueLocals
    /\ pc' = "queueLoop"
    /\ UNCHANGED <<marketState_, activeOrders_, position_, cashFlow_, totalOrdersPlaced_,
                   totalOrdersFilled_, totalBuyVolume_, totalSellVolume_, latencyStats_,
                   strategyMdLatencyNs_, exchangeLatencyNs_, lastProcessedTime,
                   outputFile_, trace, shadow>>
    /\ UNCHANGED <<bookTop, bookFill, hasMoreTops, hasMoreFills, processedTops,
                   processedFills, topsRead, fillsRead, dispatched>>

\* one iteration of the loop over the book events file, whose timestamps do
\* not decrease, up to the update of the top
QueueEvent(maxEvents, events, times, responses, scripts) ==
    /\ pc = "queueLoop"
    /\ queueRun.processedEvents < maxEvents
    /\ \E event \in events, ts \in times, freed \in QueueFreeds :
         /\ ts >= queueRun.currentTop.ts
         /\ LET hdr == [ts |-> ts, seq_no |-> queueRun.processedEvents + 1]
                q == bookEvent(queueRun, event, hdr, freed)
            IN /\ queueRun' = q
               /\ pc' = IF q.undefined THEN "undefined" ELSE "queueTop"
               /\ IF q.fills # <<>>
                  THEN /\ \E s \in Outcomes("fill", q.fills[1], responses, scripts) :
                             /\ SetFields(s)
                             /\ shadow' = shadow
                       /\ dispatched' = [kind |-> "fill", ts |-> ts]
                  ELSE UNCHANGED <<marketState_, activeOrders_, position_, cashFlow_,
                                   totalOrdersPlaced_, totalOrdersFilled_, totalBuyVolume_,
                                   totalSellVolume_, latencyStats_, strategyMdLatencyNs_,
                                   exchangeLatencyNs_, lastProcessedTime, outputFile_, trace,
                                   shadow, dispatched>>
    /\ UNCHANGED <<bookTop, bookFill, hasMoreTops, hasMoreFills, processedTops,
                   processedFills, topsRead, fillsRead>>

\* if (topChanged) { updateTopLevels(); processBookTop(currentTop); }
\* processedEvents++
QueueTop(responses, scripts) ==
    /\ pc = "queueTop"
    /\ LET q == IF queueRun.topChanged THEN updateTopLevels(queueRun) ELSE queueRun
       IN /\ queueRun' = [q EXCEPT !.processedEvents = @ + 1]
          /\ IF q.topChanged
             THEN /\ \E s \in Outcomes("top", q.currentTop, responses, scripts) :
                        /\ SetFields(s)
                        /\ shadow' = shadow
                  /\ dispatched' = [kind |-> "top", ts |-> q.currentTop.ts]
             ELSE UNCHANGED <<marketState_, activeOrders_, position_, cashFlow_,
                              totalOrdersPlaced_, totalOrdersFilled_, totalBuyVolume_,
                              totalSellVolume_, latencyStats_, strategyMdLatencyNs_,
                              exchangeLatencyNs_, lastProcessedTime, outputFile_, trace,
                              shadow, dispatched>>
    /\ pc' = "queueLoop"
    /\ UNCHANGED <<bookTop, bookFill, hasMoreTops, hasMoreFills, processedTops,
                   processedFills, topsRead, fillsRead>>

\* the read of the next event header fails: the end of the file
QueueEnd ==
    /\ pc = "queueLoop"
    /\ pc' = "done"
    /\ UNCHANGED <<simVars, bookTop, bookFill, hasMoreTops, hasMoreFills, processedTops,
                   processedFills, topsRead, fillsRead, dispatched>>

QueueResponses == {<<>>, <<Add(1, 100, 1, TRUE, FALSE)>>}

NextQueue ==
    \/ QueueStart
    \/ QueueEvent(QueueMaxEvents, BookEvents, QueueTimes, QueueResponses, {<<>>})
    \/ QueueTop(QueueResponses, {<<>>})
    \/ QueueEnd

SpecQueue == Init /\ [][NextQueue]_vars

(***************************************************************************)
(* The book reconstruction alone: every kind of event, any quantities,     *)
(* order ids that are reused, and a strategy that returns no action.       *)
(***************************************************************************)
BookIds == {1, 2}
BookQtys == {0, 2, 5}
BookTimes == {1, 100001}
AllBookEvents ==
    {add_order(i, p, n, TRUE) : i \in BookIds, p \in {99, 100}, n \in BookQtys}
    \cup {add_order(i, 101, n, FALSE) : i \in BookIds, n \in BookQtys}
    \cup {add_order(3, 2 * MAX_REASONABLE_PRICE, 5, b) : b \in BOOLEAN}
    \cup {delete_order(i) : i \in BookIds \cup {3}}
    \cup {replace_order(i, j, p, 5) : i \in BookIds, j \in {2, 3}, p \in {100, 101}}
    \cup {amend_order(i, n) : i \in BookIds, n \in BookQtys}
    \cup {reduce_order(i, n) : i \in BookIds, n \in BookQtys}
    \cup {execute_order(i, n, 9) : i \in BookIds, n \in {3, 5}}
    \cup {execute_order_at_price(i, n, 9, 98) : i \in BookIds, n \in {3, 5}}
    \cup {clear_book}

NextBook ==
    \/ QueueStart
    \/ QueueEvent(BookMaxEvents, AllBookEvents, BookTimes, {<<>>}, {<<>>})
    \/ QueueTop({<<>>}, {<<>>})
    \/ QueueEnd

SpecBook == Init /\ [][NextBook]_vars

(***************************************************************************)
(* The two modes on the same market data.  Queue mode runs on a book       *)
(* events file; the tops and the fills it synthesizes, in the order it     *)
(* synthesizes them, are the tops file and the fills file derived from     *)
(* it, on which a second simulator with the same latencies and the same    *)
(* strategy runs in tops/fills mode when the first is done.  The strategy  *)
(* is one that answers every onBookTopUpdate with one list and every       *)
(* onFill with another, and onOrderFilled with nothing; shadow holds it,   *)
(* the derived files, the records of the first run and, at the end, the    *)
(* fields of the second simulator.                                         *)
(***************************************************************************)
ModesStrategies ==
    { [onBookTopUpdate |-> <<>>, onFill |-> <<Add(1, 101, 1, TRUE, FALSE)>>],
      [onBookTopUpdate |-> <<Add(1, 99, 1, TRUE, FALSE)>>, onFill |-> <<>>],
      [onBookTopUpdate |-> <<>>, onFill |-> <<>>] }
ModesEvents ==
    { add_order(1, 99, 5, TRUE), add_order(2, 102, 5, FALSE), add_order(3, 101, 5, FALSE),
      execute_order(3, 5, 9), execute_order(3, 3, 9), delete_order(3) }
ModesTimes == {0, 100000, 200000}

Answering(actions) == [Quiet EXCEPT !.actions = actions]

\* a simulator as constructed, with the latencies of this one
FreshSim ==
    [Sim(Quiet) EXCEPT
       !.marketState_ = [lastBookTop |-> ZeroTop, lastValidMidPrice |-> 0,
                         bidLevels |-> <<>>, askLevels |-> <<>>],
       !.activeOrders_ = <<>>, !.position_ = 0, !.cashFlow_ = 0,
       !.totalOrdersPlaced_ = 0, !.totalOrdersFilled_ = 0,
       !.totalBuyVolume_ = 0, !.totalSellVolume_ = 0,
       !.latencyStats_ = [totalMdEvents |-> 0, totalMdToStrategyLatencyNs |-> 0,
                          totalStrategyToExchangeLatencyNs |-> 0,
                          totalExchangeToNotificationLatencyNs |-> 0],
       !.lastProcessedTime = 0]

\* runSimulation on two files, as one function of the simulator
RECURSIVE runSimulation(_, _, _, _)
runSimulation(s, tops, fills, strategy) ==
    IF tops = <<>> /\ fills = <<>> THEN s
    ELSE IF fills = <<>> \/ (tops # <<>> /\ Head(tops).ts <= Head(fills).ts)
    THEN runSimulation(
           [processBookTop(s, Head(tops), Answering(strategy.onBookTopUpdate))
              EXCEPT !.trace = <<>>],
           Tail(tops), fills, strategy)
    ELSE runSimulation(
           [processBookFill(s, Head(fills), Answering(strategy.onFill))
              EXCEPT !.trace = <<>>],
           tops, Tail(fills), strategy)

ModesStart ==
    /\ pc = "readFirstTop"
    /\ queueRun = NoQueueRun
    /\ queueRun' = QueueLocals
    /\ \E strategy \in ModesStrategies :
          shadow' = [strategy |-> strategy, tops |-> <<>>, fills |-> <<>>, records |-> <<>>]
    /\ pc' = "queueLoop"
    /\ UNCHANGED <<marketState_, activeOrders_, position_, cashFlow_, totalOrdersPlaced_,
                   totalOrdersFilled_, totalBuyVolume_, totalSellVolume_, latencyStats_,
                   strategyMdLatencyNs_, exchangeLatencyNs_, lastProcessedTime,
                   outputFile_, trace>>
    /\ UNCHANGED <<bookTop, bookFill, hasMoreTops, hasMoreFills, processedTops,
                   processedFills, topsRead, fillsRead, dispatched>>

ModesEvent(maxEvents, events, times) ==
    /\ pc = "queueLoop"
    /\ queueRun.processedEvents < maxEvents
    /\ \E event \in events, ts \in times, freed \in QueueFreeds :
         /\ ts >= queueRun.currentTop.ts
         /\ LET hdr == [ts |-> ts, seq_no |-> queueRun.processedEvents + 1]
                q == bookEvent(queueRun, event, hdr, freed)
            IN /\ queueRun' = q
               /\ pc' = IF q.undefined THEN "undefined" ELSE "queueTop"
               /\ IF q.fills # <<>>
                  THEN /\ \E s \in {processBookFill(Sim(Answering(shadow.strategy.onFill)),
                                                    q.fills[1],
                                                    Answering(shadow.strategy.onFill))} :
                             /\ SetFields(s)
                             /\ shadow' = [shadow EXCEPT !.fills = Append(@, q.fills[1]),
                                                         !.records = @ \o s.outputFile_]
                       /\ dispatched' = [kind |-> "fill", ts |-> ts]
                  ELSE UNCHANGED <<marketState_, activeOrders_, position_, cashFlow_,
                                   totalOrdersPlaced_, totalOrdersFilled_, totalBuyVolume_,
                                   totalSellVolume_, latencyStats_, strategyMdLatencyNs_,
                                   exchangeLatencyNs_, lastProcessedTime, outputFile_, trace,
                                   shadow, dispatched>>
    /\ UNCHANGED <<bookTop, bookFill, hasMoreTops, hasMoreFills, processedTops,
                   processedFills, topsRead, fillsRead>>

ModesTop ==
    /\ pc = "queueTop"
    /\ LET q == IF queueRun.topChanged THEN updateTopLevels(queueRun) ELSE queueRun
       IN /\ queueRun' = [q EXCEPT !.processedEvents = @ + 1]
          /\ IF q.topChanged
             THEN /\ \E s \in {processBookTop(Sim(Answering(shadow.strategy.onBookTopUpdate)),
                                              q.currentTop,
                                              Answering(shadow.strategy.onBookTopUpdate))} :
                        /\ SetFields(s)
                        /\ shadow' = [shadow EXCEPT !.tops = Append(@, q.currentTop),
                                                    !.records = @ \o s.outputFile_]
                  /\ dispatched' = [kind |-> "top", ts |-> q.currentTop.ts]
             ELSE UNCHANGED <<marketState_, activeOrders_, position_, cashFlow_,
                              totalOrdersPlaced_, totalOrdersFilled_, totalBuyVolume_,
                              totalSellVolume_, latencyStats_, strategyMdLatencyNs_,
                              exchangeLatencyNs_, lastProcessedTime, outputFile_, trace,
                              shadow, dispatched>>
    /\ pc' = "queueLoop"
    /\ UNCHANGED <<bookTop, bookFill, hasMoreTops, hasMoreFills, processedTops,
                   processedFills, topsRead, fillsRead>>

\* the end of the book events file, and the run of the second simulator
ModesEnd ==
    /\ pc = "queueLoop"
    /\ pc' = "done"
    /\ shadow' = [f \in DOMAIN shadow \cup {"topsFills"} |->
                    IF f = "topsFills"
                    THEN FieldsOf(runSimulation(FreshSim, shadow.tops, shadow.fills,
                                                shadow.strategy))
                    ELSE shadow[f]]
    /\ UNCHANGED <<marketState_, activeOrders_, position_, cashFlow_, totalOrdersPlaced_,
                   totalOrdersFilled_, totalBuyVolume_, totalSellVolume_, latencyStats_,
                   strategyMdLatencyNs_, exchangeLatencyNs_, lastProcessedTime,
                   outputFile_, trace, queueRun>>
    /\ UNCHANGED <<bookTop, bookFill, hasMoreTops, hasMoreFills, processedTops,
                   processedFills, topsRead, fillsRead, dispatched>>

NextModes ==
    \/ ModesStart
    \/ ModesEvent(ModesMaxEvents, ModesEvents, ModesTimes)
    \/ ModesTop
    \/ ModesEnd

SpecModes == Init /\ [][NextModes]_vars

(***************************************************************************)
(* Properties.  They are stated on the trace of the dispatch that led to   *)
(* the state: step i of the trace carries the fields as they were when     *)
(* the step was taken (trace[i].snap), a processAction step the action it  *)
(* was called with, a callback step the list the strategy returned.        *)
(***************************************************************************)
\* would_fill as the specification defines it, against a given top
Crosses(isBid, price, qty, top) ==
    /\ price > 0
    /\ qty > 0
    /\ IF isBid
       THEN /\ top.top_level.ask_nanos > 0
            /\ top.top_level.ask_nanos # INT64_MAX
            /\ price >= top.top_level.ask_nanos
       ELSE /\ top.top_level.bid_nanos > 0
            /\ top.top_level.bid_nanos # INT64_MAX
            /\ price <= top.top_level.bid_nanos

Opposing(isBid, top) == IF isBid THEN top.top_level.ask_nanos ELSE top.top_level.bid_nanos

\* step i is the call of processAction with an ADD
IsAdd(i) == trace[i].ev = "processAction" /\ trace[i].action.type = "ADD"
\* step i wrote the record r
Wrote(i, r) ==
    /\ i \in DOMAIN trace
    /\ trace[i].ev = "record"
    /\ outputFile_[trace[i].snap.records] = r

QuantitiesOk(orders) ==
    \A id \in DOMAIN orders :
        /\ 0 <= orders[id].filledQuantity
        /\ orders[id].filledQuantity <= orders[id].quantity

\* C1: every order in the active set has 0 <= filledQuantity <= quantity, in
\* the states between events and at every step within a dispatch, whatever
\* the strategy returns.
C1_FilledWithinQuantity ==
    /\ QuantitiesOk(activeOrders_)
    /\ \A i \in DOMAIN trace : QuantitiesOk(trace[i].snap.activeOrders_)

\* a fill brought an order's filledQuantity up to its quantity, and another
\* order is active after the dispatch
C1_Witness ==
    /\ activeOrders_ # <<>>
    /\ \E i \in DOMAIN trace : \E id \in DOMAIN trace[i].snap.activeOrders_ :
          LET o == trace[i].snap.activeOrders_[id]
          IN o.quantity > 0 /\ o.filledQuantity = o.quantity

\* C2: between operations no order whose filledQuantity equals its quantity
\* is in the active set, an order added with quantity 0 included.
C2_NoFilledOrderActive ==
    \A id \in DOMAIN activeOrders_ :
        activeOrders_[id].filledQuantity # activeOrders_[id].quantity

\* C3: an ADD of a post-only order that crosses the current top writes an ADD
\* record and then a CANCEL record, both at action.md_ts, and returns without
\* a fill or a callback: the order is not active, position, cash flow, orders
\* filled and the volumes are as before, orders placed is one more.
C3_PostOnlyCrossingAdd ==
    \A i \in DOMAIN trace :
        LET a == trace[i].action
            pre == trace[i].snap
        IN (IsAdd(i) /\ a.isPostOnly /\ Crosses(a.isBid, a.price, a.quantity, pre.lastBookTop))
           => /\ i + 3 <= Len(trace)
              /\ Wrote(i + 1, OrderRecord(a.md_ts, 1, a.orderId, a.symbolId, a.price,
                                          a.quantity, a.isBid))
              /\ Wrote(i + 2, OrderRecord(a.md_ts, 2, a.orderId, a.symbolId, a.price,
                                          a.quantity, a.isBid))
              /\ trace[i + 3].ev = "return"
              /\ LET post == trace[i + 3].snap
                 IN /\ a.orderId \notin DOMAIN post.activeOrders_
                    /\ post.position_ = pre.position_
                    /\ post.cashFlow_ = pre.cashFlow_
                    /\ post.totalOrdersFilled_ = pre.totalOrdersFilled_
                    /\ post.totalBuyVolume_ = pre.totalBuyVolume_
                    /\ post.totalSellVolume_ = pre.totalSellVolume_
                    /\ post.totalOrdersPlaced_ = pre.totalOrdersPlaced_ + 1

\* a post-only ADD crossed the top while the position was not flat
C3_Witness ==
    \E i \in DOMAIN trace :
        /\ IsAdd(i) /\ trace[i].action.isPostOnly
        /\ Crosses(trace[i].action.isBid, trace[i].action.price, trace[i].action.quantity,
                   trace[i].snap.lastBookTop)
        /\ trace[i].snap.position_ # 0

\* C4: an ADD of an order that is not post-only and crosses the current top
\* writes an ADD record, then a FILL record for action.quantity at the
\* opposing price of the top at action.md_ts + exchangeLatencyNs_; when the
\* strategy is told, position has moved by +quantity (bid) or -quantity
\* (ask), cash flow by -/+ price * quantity, orders filled by 1, and the
\* order is not active.
C4_CrossingAddFills ==
    \A i \in DOMAIN trace :
        LET a == trace[i].action
            pre == trace[i].snap
            price == Opposing(a.isBid, pre.lastBookTop)
            sign == IF a.isBid THEN 1 ELSE -1
        IN (IsAdd(i) /\ ~a.isPostOnly /\ Crosses(a.isBid, a.price, a.quantity, pre.lastBookTop))
           => /\ i + 3 <= Len(trace)
              /\ Wrote(i + 1, OrderRecord(a.md_ts, 1, a.orderId, a.symbolId, a.price,
                                          a.quantity, a.isBid))
              /\ Wrote(i + 2, OrderRecord(a.md_ts + exchangeLatencyNs_, 3, a.orderId,
                                          a.symbolId, price, a.quantity, a.isBid))
              /\ trace[i + 3].ev = "onOrderFilled"
              /\ trace[i + 3].id = a.orderId
              /\ LET post == trace[i + 3].snap
                 IN /\ a.orderId \notin DOMAIN post.activeOrders_
                    /\ post.position_ = pre.position_ + sign * a.quantity
                    /\ post.cashFlow_ = pre.cashFlow_ - sign * price * a.quantity
                    /\ post.totalOrdersFilled_ = pre.totalOrdersFilled_ + 1

\* a crossing sell that is not post-only was added and filled at the bid
C4_Witness ==
    \E i \in DOMAIN trace :
        /\ IsAdd(i) /\ ~trace[i].action.isPostOnly /\ ~trace[i].action.isBid
        /\ Crosses(FALSE, trace[i].action.price, trace[i].action.quantity,
                   trace[i].snap.lastBookTop)
        /\ exchangeLatencyNs_ > 0
        /\ position_ < 0

\* prices and quantities around the tops of the input
ProbePrices == {-1, 0, 98, 99, 100, 101, 102, INT64_MAX}
ProbeQtys == {0, 1, 2}

\* C5: wouldOrderBeFilled is true iff price > 0, quantity > 0 and the opposing
\* side of the stored top is a valid price that the limit price reaches; an
\* ADD is filled or cancelled on the spot exactly in that case, so with
\* ask = bid + 1 a bid at the bid rests.
C5_WouldFill ==
    /\ \A isBid \in BOOLEAN, price \in ProbePrices, qty \in ProbeQtys :
          wouldOrderBeFilled(Sim(Quiet), isBid, price, qty)
              <=> Crosses(isBid, price, qty, marketState_.lastBookTop)
    /\ \A i \in DOMAIN trace :
          IsAdd(i) =>
              /\ i + 2 <= Len(trace)
              /\ trace[i + 1].ev = "record"
              /\ (trace[i + 2].ev = "record")
                    <=> Crosses(trace[i].action.isBid, trace[i].action.price,
                                trace[i].action.quantity, trace[i].snap.lastBookTop)

\* with ask = bid + 1 a bid at the bid was added and rests
C5_Witness ==
    LET top == marketState_.lastBookTop.top_level IN
    /\ top.ask_nanos = top.bid_nanos + 1
    /\ \E i \in DOMAIN trace :
          /\ IsAdd(i) /\ trace[i].action.isBid
          /\ trace[i].action.price = top.bid_nanos
          /\ trace[i + 2].ev = "return"
          /\ trace[i].action.orderId \in DOMAIN activeOrders_

\* the step at which the re-evaluation pass of an accepted top starts
HasPass == \E k \in DOMAIN trace : trace[k].ev = "reEvaluate"
PassStart == CHOOSE k \in DOMAIN trace : trace[k].ev = "reEvaluate"
\* the orders of the active set at the start of the pass that cross the top
\* with their remaining quantity
Due ==
    LET S == trace[PassStart].snap
    IN {id \in DOMAIN S.activeOrders_ :
           Crosses(S.activeOrders_[id].isBid, S.activeOrders_[id].price,
                   S.activeOrders_[id].quantity - S.activeOrders_[id].filledQuantity,
                   S.lastBookTop)}
\* the pass filled order id: it called processFill for it with the notification
\* time order.md_ts + exchangeLatencyNs_, and the FILL record for the remaining
\* quantity at the opposing price is in the output, at that time (at
\* lastBookTop.ts + exchangeLatencyNs_ where processFill is handed the time 0)
PassFilled(id) ==
    LET S == trace[PassStart].snap
        o == S.activeOrders_[id]
        ts == o.md_ts + exchangeLatencyNs_
    IN /\ \E i \in DOMAIN trace :
             trace[i].ev = "fillResting" /\ trace[i].id = id /\ trace[i].ts = ts
       /\ \E j \in DOMAIN outputFile_ :
             /\ j > S.records
             /\ outputFile_[j] =
                   OrderRecord(IF ts = 0 THEN S.lastBookTop.ts + exchangeLatencyNs_ ELSE ts,
                               3, id, o.symbolId, Opposing(o.isBid, S.lastBookTop),
                               o.quantity - o.filledQuantity, o.isBid)
\* the fills the pass made itself
PassFills == {i \in DOMAIN trace : trace[i].ev = "fillResting"}
\* no onOrderFilled call of the pass returned an action
PassUndisturbed ==
    \A i \in DOMAIN trace :
        (i > PassStart /\ trace[i].ev = "onOrderFilled") => trace[i].ret = <<>>

\* C6 as stated: in the dispatch of an accepted top every order that is
\* active after the returned actions and crosses the top with its remaining
\* quantity is filled by the pass, for that quantity at the opposing price
\* with notification time order.md_ts + exchangeLatencyNs_, one FILL per
\* such order.
C6_AllDueOrdersFilled ==
    HasPass =>
        /\ \A id \in Due : PassFilled(id)
        /\ Cardinality(PassFills) = Cardinality(Due)

\* C6: the same for the dispatches in which no onOrderFilled call made during
\* the pass returns an action.
C6_DueOrdersFilledUndisturbed ==
    (HasPass /\ PassUndisturbed) =>
        /\ \A id \in Due : PassFilled(id)
        /\ Cardinality(PassFills) = Cardinality(Due)

\* two resting bids crossed the new ask and the pass filled both
C6_Witness ==
    /\ HasPass /\ PassUndisturbed
    /\ Cardinality(Due) = 2
    /\ \A id \in Due : trace[PassStart].snap.activeOrders_[id].isBid
    /\ trace[PassStart].snap.position_ = 0
    /\ position_ = 2

\* a top level as the specification wants it: 0 < bid < ask <= MAX_REASONABLE_PRICE
WellFormed(lvl) ==
    /\ 0 < lvl.bid_nanos
    /\ lvl.bid_nanos < lvl.ask_nanos
    /\ lvl.ask_nanos <= MAX_REASONABLE_PRICE
\* the step dispatches the book top in bookTop
TopDispatch == pc = "loop" /\ pc' = "readTop"
\* the step changes nothing of the simulator, writes no record and calls no callback
NoEffect ==
    /\ UNCHANGED <<marketState_, activeOrders_, position_, cashFlow_, totalOrdersPlaced_,
                   totalOrdersFilled_, totalBuyVolume_, totalSellVolume_, latencyStats_,
                   lastProcessedTime>>
    /\ outputFile_' = <<>>
    /\ trace' = <<>>
NoTopYet == marketState_.lastBookTop = ZeroTop
\* every top whose top level is not well formed is dropped without effect
DropsIllFormed == (TopDispatch /\ ~WellFormed(bookTop.top_level)) => NoEffect

\* C7 as stated: a top whose top level violates 0 < bid < ask <= 10^13 is
\* dropped without any effect, every time it is fed, and the bound is
\* inclusive for the bid: a first top with bid = 10^13 below its ask is accepted.
C7_DropsInvalidBidBoundAccepted ==
    [][ /\ DropsIllFormed
        /\ (/\ TopDispatch /\ NoTopYet
            /\ bookTop.top_level.bid_nanos = MAX_REASONABLE_PRICE
            /\ bookTop.top_level.bid_nanos < bookTop.top_level.ask_nanos)
           => marketState_'.lastBookTop = bookTop ]_vars

\* C7: a top whose top level violates 0 < bid < ask <= 10^13 is dropped
\* without any effect, every time it is fed; the bound is inclusive for the
\* ask: a first top with ask = 10^13 and bid = 10^13 - 1 is accepted, and a
\* top with bid = 10^13 is always dropped.
C7_DropsInvalidAskBoundAccepted ==
    [][ /\ DropsIllFormed
        /\ (/\ TopDispatch /\ NoTopYet
            /\ bookTop.top_level.ask_nanos = MAX_REASONABLE_PRICE
            /\ bookTop.top_level.bid_nanos = MAX_REASONABLE_PRICE - 1)
           => marketState_'.lastBookTop = bookTop
        /\ (TopDispatch /\ bookTop.top_level.bid_nanos = MAX_REASONABLE_PRICE) => NoEffect ]_vars

\* a top with bid = 10^13 was dropped while an order was resting
C7_Witness ==
    /\ pc = "readTop"
    /\ bookTop.top_level.bid_nanos = MAX_REASONABLE_PRICE
    /\ activeOrders_ # <<>>
    /\ trace = <<>>

\* C8: a well-formed top is accepted iff no top was accepted before or its ts
\* is at least MIN_PROCESSING_INTERVAL after the ts of the top accepted last;
\* a dropped top leaves the reference time alone.
C8_CoalescerByAcceptedTime ==
    [][ TopDispatch =>
          /\ WellFormed(bookTop.top_level) =>
                ((marketState_'.lastBookTop = bookTop /\ trace' # <<>>)
                    <=> \/ NoTopYet
                        \/ bookTop.ts - marketState_.lastBookTop.ts >= MIN_PROCESSING_INTERVAL)
          /\ trace' = <<>> => lastProcessedTime' = lastProcessedTime ]_vars

\* the state right after an accepted top was dispatched
AfterAcceptedTop == pc = "readTop" /\ trace # <<>>
\* the steps of the trace that are ev
StepsOf(ev) == {i \in DOMAIN trace : trace[i].ev = ev}
\* the calls of processAction for the callback's own actions, in call order
TopLevelCalls ==
    SelectSeq(trace, LAMBDA st : st.ev = "processAction" /\ st.depth = 0)
RecordSteps == SelectSeq(trace, LAMBDA st : st.ev = "record")

\* C9: the dispatch of an accepted top first stores the top and the mid
\* price, then calls onBookTopUpdate with the top shifted by
\* strategyMdLatencyNs_, then processes the returned actions one by one in
\* list order, and only then runs the re-evaluation pass; the records are in
\* the output in the order they were written.
C9_DispatchOrder ==
    AfterAcceptedTop =>
        /\ Len(trace) >= 3
        /\ trace[1].ev = "marketState"
        /\ trace[1].snap.lastBookTop = bookTop
        /\ trace[1].snap.lastValidMidPrice =
               (bookTop.top_level.bid_nanos + bookTop.top_level.ask_nanos) \div 2
        /\ trace[2].ev = "onBookTopUpdate"
        /\ trace[2].ts = bookTop.ts + strategyMdLatencyNs_
        /\ StepsOf("marketState") = {1}
        /\ StepsOf("onBookTopUpdate") = {2}
        /\ Len(TopLevelCalls) = Len(trace[2].ret)
        /\ \A n \in DOMAIN TopLevelCalls :
              /\ TopLevelCalls[n].action.type = trace[2].ret[n].type
              /\ TopLevelCalls[n].action.orderId = trace[2].ret[n].orderId
              /\ TopLevelCalls[n].action.price = trace[2].ret[n].price
              /\ TopLevelCalls[n].action.quantity = trace[2].ret[n].quantity
        /\ Cardinality(StepsOf("reEvaluate")) = 1
        /\ \A i \in DOMAIN trace :
              /\ (trace[i].ev \in {"processAction", "return"} /\ trace[i].depth = 0)
                    => (2 < i /\ i < PassStart)
              /\ trace[i].ev = "fillResting" => i > PassStart
        /\ Len(RecordSteps) = Len(outputFile_)
        /\ \A n \in DOMAIN RecordSteps :
              /\ RecordSteps[n].snap.records = n
              /\ RecordSteps[n].id = outputFile_[n].order_id
              /\ RecordSteps[n].ts = outputFile_[n].timestamp

\* the callback returned two actions, and the pass filled a resting order after them
C9_Witness ==
    /\ AfterAcceptedTop
    /\ Len(trace[2].ret) = 2
    /\ StepsOf("fillResting") # {}
    /\ Len(outputFile_) >= 3

\* the step dispatches a record
Dispatch == pc = "loop" /\ pc' \in {"readTop", "readFill"}

\* C10: with both files non-decreasing in ts, the records are dispatched in
\* non-decreasing ts, those of each file in file order and each exactly once
\* (a record is read only when its predecessor was dispatched, the record
\* dispatched is the one read last, and at the end every record read was
\* dispatched), and a top is dispatched before a fill of the same ts.
C10_MergeOrder ==
    [][ /\ Dispatch =>
              /\ dispatched'.ts >= dispatched.ts
              /\ pc' = "readTop" =>
                    /\ dispatched' = [kind |-> "top", ts |-> bookTop.ts]
                    /\ hasMoreTops
                    /\ processedTops' = topsRead
                    /\ processedFills' = processedFills
                    /\ hasMoreFills => bookTop.ts <= bookFill.ts
              /\ pc' = "readFill" =>
                    /\ dispatched' = [kind |-> "fill", ts |-> bookFill.ts]
                    /\ hasMoreFills
                    /\ processedFills' = fillsRead
                    /\ processedTops' = processedTops
                    /\ hasMoreTops => bookFill.ts < bookTop.ts
        /\ topsRead' # topsRead => (topsRead' = topsRead + 1 /\ processedTops = topsRead)
        /\ fillsRead' # fillsRead => (fillsRead' = fillsRead + 1 /\ processedFills = fillsRead)
        /\ pc' = "done" => (processedTops' = topsRead' /\ processedFills' = fillsRead')
      ]_vars

\* a fill was dispatched after the last top, which has the same ts
C10_Witness ==
    /\ pc = "readFill"
    /\ dispatched = [kind |-> "fill", ts |-> bookFill.ts]
    /\ ~hasMoreTops
    /\ processedTops >= 2
    /\ bookTop.ts = bookFill.ts
    /\ bookTop.ts > 0

\* the driver or a callback has a next step to take (every action of NextChain
\* is enabled by pc and by what was read, except at the two ends)
Running == pc \in {"readFirstTop", "readFirstFill", "readTop", "readFill", "loop",
                   "onOrderFilled"}

\* C11: a run over finite files terminates: every dispatch completes, fills
\* answered by further filling actions included, and the driver loop reaches
\* its end.  As the state graph of SpecChain has no cycle (every step reads a
\* record, dispatches one or adds a frame), the run terminates iff it never
\* stops anywhere but at the end of the driver loop.
C11_Terminates == pc = "done" \/ Running

\* step i is the call of processAction with an action of the given type
IsCall(i, type) == trace[i].ev = "processAction" /\ trace[i].action.type = type
\* the fields as they were when step i was taken, the steps and the records
\* set aside
Fields(i) == [trace[i].snap EXCEPT !.records = 0]

\* C12: a CANCEL of an active order removes it and writes exactly one CANCEL
\* record, at action.md_ts, with the side, price, quantity and symbol the
\* order has in the active set (those of an earlier REPLACE included, not
\* those of the action); a CANCEL of an order that is not active writes no
\* record and changes neither the active set nor position, cash flow, orders
\* placed and orders filled.
C12_Cancel ==
    \A i \in DOMAIN trace :
        LET a == trace[i].action
            pre == trace[i].snap
        IN IsCall(i, "CANCEL") =>
             IF a.orderId \in DOMAIN pre.activeOrders_
             THEN LET o == pre.activeOrders_[a.orderId]
                  IN /\ i + 2 <= Len(trace)
                     /\ Wrote(i + 1, OrderRecord(a.md_ts, 2, a.orderId, o.symbolId, o.price,
                                                 o.quantity, o.isBid))
                     /\ trace[i + 1].snap.records = pre.records + 1
                     /\ trace[i + 2].ev = "return"
                     /\ Fields(i + 2) =
                            [Fields(i) EXCEPT !.activeOrders_ = MapErase(@, a.orderId)]
                     /\ trace[i + 2].snap.records = pre.records + 1
             ELSE /\ i + 1 <= Len(trace)
                  /\ trace[i + 1].ev = "return"
                  /\ trace[i + 1].snap = pre

\* an order was cancelled after a REPLACE of the same dispatch had changed its
\* price
C12_Witness ==
    /\ \E i \in DOMAIN trace :
          /\ IsCall(i, "CANCEL")
          /\ trace[i].action.orderId \in DOMAIN trace[i].snap.activeOrders_
          /\ \E j \in 1..(i - 1) :
                /\ IsCall(j, "REPLACE")
                /\ trace[j].action.orderId = trace[i].action.orderId
                /\ trace[j].action.orderId \in DOMAIN trace[j].snap.activeOrders_
                /\ trace[j].snap.activeOrders_[trace[j].action.orderId].price
                     # trace[i].snap.activeOrders_[trace[i].action.orderId].price

\* the first step after step i that is a call of processAction or a return
\* from it (the end of the trace if there is none)
NextCallOrReturn(i) ==
    IF \E j \in (i + 1)..Len(trace) : trace[j].ev \in {"processAction", "return"}
    THEN CHOOSE j \in (i + 1)..Len(trace) :
            /\ trace[j].ev \in {"processAction", "return"}
            /\ \A k \in (i + 1)..(j - 1) : trace[k].ev \notin {"processAction", "return"}
    ELSE Len(trace) + 1

\* C13: a REPLACE of an active order writes one REPLACE record, at
\* action.md_ts, whose old_price and old_quantity are the order's price and
\* quantity before the action and whose price and quantity are the action's;
\* the order keeps its side, its post-only flag and its filledQuantity, and
\* gets the action's price and quantity, and the action's sent_ts and md_ts
\* where they are not zero.  A REPLACE of an order that is not active writes
\* no record and changes nothing.
C13_Replace ==
    \A i \in DOMAIN trace :
        LET a == trace[i].action
            pre == trace[i].snap
        IN IsCall(i, "REPLACE") =>
             IF a.orderId \in DOMAIN pre.activeOrders_
             THEN LET o == pre.activeOrders_[a.orderId]
                      o1 == [orderId |-> o.orderId, symbolId |-> o.symbolId, isBid |-> o.isBid,
                             isPostOnly |-> o.isPostOnly, filledQuantity |-> o.filledQuantity,
                             price |-> a.price, quantity |-> a.quantity,
                             sent_ts |-> IF a.sent_ts # 0 THEN a.sent_ts ELSE o.sent_ts,
                             md_ts |-> IF a.md_ts # 0 THEN a.md_ts ELSE o.md_ts]
                  IN /\ Wrote(i + 1, ReplaceRecord(a.md_ts, a.orderId, o.symbolId, o.price,
                                                   a.price, o.quantity, a.quantity, o.isBid))
                     /\ trace[i + 1].snap.records = pre.records + 1
                     /\ Fields(i + 1) = [Fields(i) EXCEPT !.activeOrders_[a.orderId] = o1]
                     /\ \A k \in (i + 2)..(NextCallOrReturn(i) - 1) :
                           trace[k].ev = "record" =>
                              outputFile_[trace[k].snap.records].event_type # 4
             ELSE /\ i + 1 <= Len(trace)
                  /\ trace[i + 1].ev = "return"
                  /\ trace[i + 1].snap = pre

\* a REPLACE changed both the price and the quantity of an active order
C13_Witness ==
    \E i \in DOMAIN trace :
        /\ IsCall(i, "REPLACE")
        /\ trace[i].action.orderId \in DOMAIN trace[i].snap.activeOrders_
        /\ LET o == trace[i].snap.activeOrders_[trace[i].action.orderId]
           IN /\ o.price # trace[i].action.price
              /\ o.quantity # trace[i].action.quantity
              /\ o.md_ts # trace[i].action.md_ts

\* the FILL records among the records of the last dispatch
RECURSIVE SignedNotional(_)
SignedNotional(records) ==
    IF records = <<>> THEN 0
    ELSE LET r == Head(records)
         IN (IF r.event_type # 3 THEN 0
             ELSE IF r.is_bid THEN -(r.price * r.quantity) ELSE r.price * r.quantity)
            + SignedNotional(Tail(records))

\* the fields as they were when the last dispatch began
AtDispatch == trace[1].snap

\* C14: each fill moves the cash flow by exactly fill price times fill
\* quantity, down for a bid and up for an ask, and the position by the fill
\* quantity, up for a bid and down for an ask: when the strategy is told of a
\* fill the two have moved so against the step that wrote the FILL record,
\* and over a dispatch the cash flow moves by the signed sum of price times
\* quantity of its FILL records (so that, from 0, it is that sum over the
\* whole run).
C14_CashFlowExact ==
    /\ \A i \in DOMAIN trace :
          trace[i].ev = "onOrderFilled" =>
             LET r == outputFile_[trace[i - 1].snap.records]
                 sign == IF r.is_bid THEN 1 ELSE -1
             IN /\ trace[i - 1].ev = "record" /\ r.event_type = 3
                /\ trace[i].snap.cashFlow_ =
                       trace[i - 1].snap.cashFlow_ - sign * r.price * r.quantity
                /\ trace[i].snap.position_ = trace[i - 1].snap.position_ + sign * r.quantity
    /\ trace # <<>> => cashFlow_ = AtDispatch.cashFlow_ + SignedNotional(outputFile_)

\* the sum of the quantities of the FILL records of one side
RECURSIVE FilledVolume(_, _)
FilledVolume(records, isBid) ==
    IF records = <<>> THEN 0
    ELSE LET r == Head(records)
         IN (IF r.event_type = 3 /\ r.is_bid = isBid THEN r.quantity ELSE 0)
            + FilledVolume(Tail(records), isBid)

\* C15: total buy volume is the sum of the quantities of the FILL records of
\* bids and total sell volume that of the FILL records of asks (over a
\* dispatch each grows by the sum over the dispatch's records, and both start
\* at 0), and position is total buy volume minus total sell volume.
C15_Volumes ==
    /\ position_ = totalBuyVolume_ - totalSellVolume_
    /\ \A i \in DOMAIN trace :
          trace[i].snap.position_ =
              trace[i].snap.totalBuyVolume_ - trace[i].snap.totalSellVolume_
    /\ trace # <<>> =>
          /\ totalBuyVolume_ = AtDispatch.totalBuyVolume_ + FilledVolume(outputFile_, TRUE)
          /\ totalSellVolume_ = AtDispatch.totalSellVolume_ + FilledVolume(outputFile_, FALSE)

\* bids and asks have been filled, an ask in the last dispatch, and the
\* position is not flat
C15_Witness ==
    /\ totalBuyVolume_ > 0
    /\ FilledVolume(outputFile_, FALSE) > 0
    /\ position_ # 0

\* C16: orders filled never exceeds orders placed, at any step of any run,
\* whatever the strategy does (ADDs that reuse the id of an active order,
\* REPLACEs, actions returned from onOrderFilled).
C16_FilledAtMostPlaced ==
    /\ totalOrdersFilled_ <= totalOrdersPlaced_
    /\ \A i \in DOMAIN trace :
          trace[i].snap.totalOrdersFilled_ <= trace[i].snap.totalOrdersPlaced_

\* three or more orders were placed and every one of them was filled, one of
\* them placed by an action that onOrderFilled returned
C16_Witness ==
    /\ totalOrdersPlaced_ >= 3
    /\ totalOrdersFilled_ = totalOrdersPlaced_
    /\ \E i \in DOMAIN trace : IsAdd(i) /\ trace[i].depth > 0

\* the records written between the call of processAction at step i and the
\* next call or return: those the action's own branch wrote
OwnRecords(i) ==
    {outputFile_[trace[k].snap.records] :
        k \in {k \in (i + 1)..(NextCallOrReturn(i) - 1) : trace[k].ev = "record"}}

\* C17: when an event with timestamp ts is dispatched the market-data
\* callback is called with ts + strategyMdLatencyNs_, and each action it
\* returns is processed with md_ts = ts + strategyMdLatencyNs_ +
\* exchangeLatencyNs_, which is the timestamp of the ADD, CANCEL or REPLACE
\* record the action writes.
C17_ActionStamps ==
    LET seen == dispatched.ts + strategyMdLatencyNs_
    IN \A i \in DOMAIN trace :
          /\ trace[i].ev \in {"onBookTopUpdate", "onFill"} => trace[i].ts = seen
          /\ (trace[i].ev = "processAction" /\ trace[i].depth = 0) =>
                /\ trace[i].action.md_ts = seen + exchangeLatencyNs_
                /\ \A r \in OwnRecords(i) :
                      r.event_type \in {1, 2, 4} => r.timestamp = seen + exchangeLatencyNs_
                /\ trace[i].action.type = "ADD" => OwnRecords(i) # {}

\* with latencies of 2000 and 5000 ns an event of timestamp 100000 had an ADD,
\* a REPLACE or a CANCEL record stamped 107000
C17_Witness ==
    /\ dispatched.ts = 100000
    /\ strategyMdLatencyNs_ = 2000 /\ exchangeLatencyNs_ = 5000
    /\ \E t \in {1, 2, 4} : \E i \in DOMAIN trace :
          /\ trace[i].ev = "processAction" /\ trace[i].depth = 0
          /\ \E r \in OwnRecords(i) : r.event_type = t /\ r.timestamp = 107000
    /\ \E i \in DOMAIN trace : trace[i].ev = "onFill"

\* the second simulator, whose md or exchange latency is larger, wrote the
\* same records in the same order as the first, timestamps set aside
SameRecordsButTime ==
    /\ Len(shadow.outputFile_) = Len(outputFile_)
    /\ \A k \in DOMAIN outputFile_ :
          [shadow.outputFile_[k] EXCEPT !.timestamp = 0] = [outputFile_[k] EXCEPT !.timestamp = 0]

\* step i belongs to the actions of the market-data callback (and to what
\* they led to), not to the re-evaluation pass
OfCallback(i) == ~HasPass \/ i < PassStart
\* the call of onOrderFilled whose returned list the action of step i is in
Answered(i) ==
    CHOOSE j \in 1..(i - 1) :
        /\ trace[j].ev = "onOrderFilled" /\ trace[j].depth = trace[i].depth - 1
        /\ \A k \in (j + 1)..(i - 1) :
              ~(trace[k].ev = "onOrderFilled" /\ trace[k].depth = trace[i].depth - 1)

\* C18 as stated: a larger latency changes no record but in its timestamp,
\* and for an event of timestamp ts every ADD, CANCEL or REPLACE record of an
\* action is stamped ts + md + exch and every FILL that an action leads to
\* ts + md + 2 * exch, the actions returned from onOrderFilled included.
C18_LatencyAdditive ==
    /\ SameRecordsButTime
    /\ LET seen == dispatched.ts + strategyMdLatencyNs_
       IN \A i \in DOMAIN trace :
             (trace[i].ev = "processAction" /\ OfCallback(i)) =>
                \A r \in OwnRecords(i) :
                   r.timestamp = IF r.event_type = 3 THEN seen + 2 * exchangeLatencyNs_
                                                     ELSE seen + exchangeLatencyNs_

\* C18: a larger latency changes no record but in its timestamp.  An action
\* writes its ADD, CANCEL or REPLACE record at its md_ts and the FILL it leads
\* to at once one exchange latency later; md_ts is ts + md + exch for an
\* action of the market-data callback of an event of timestamp ts, and the
\* notification time of the fill plus exch for an action returned from
\* onOrderFilled: at depth d below an action of the market-data callback the
\* records carry ts + md + (2d + 1) * exch and the FILLs
\* ts + md + (2d + 2) * exch.  A FILL of the re-evaluation pass carries the
\* resting order's md_ts + exch (lastBookTop.ts + exch if that is 0).
C18_LatencyShifts ==
    /\ SameRecordsButTime
    /\ LET seen == dispatched.ts + strategyMdLatencyNs_
           exch == exchangeLatencyNs_
       IN \A i \in DOMAIN trace :
             /\ trace[i].ev = "processAction" =>
                   LET a == trace[i].action
                       d == trace[i].depth
                   IN /\ OfCallback(i) => a.md_ts = seen + (2 * d + 1) * exch
                      /\ d > 0 => a.md_ts = trace[Answered(i)].ts + exch
                      /\ \A r \in OwnRecords(i) :
                            r.timestamp = IF r.event_type = 3 THEN a.md_ts + exch ELSE a.md_ts
             /\ trace[i].ev = "fillResting" =>
                   LET o == trace[i].snap.activeOrders_[trace[i].id]
                   IN /\ trace[i].ts = o.md_ts + exch
                      /\ Wrote(i + 1, OrderRecord(IF trace[i].ts = 0
                                                  THEN trace[i].snap.lastBookTop.ts + exch
                                                  ELSE trace[i].ts,
                                                  3, trace[i].id, o.symbolId,
                                                  Opposing(o.isBid, trace[i].snap.lastBookTop),
                                                  o.quantity - o.filledQuantity, o.isBid))
             /\ trace[i].ev = "onOrderFilled" =>
                   /\ trace[i - 1].ev = "record"
                   /\ trace[i].ts = outputFile_[trace[i - 1].snap.records].timestamp

\* with an exchange latency of 5000 ns an action returned from onOrderFilled
\* was filled at once, and so was a resting order placed by an earlier event
C18_Witness ==
    /\ exchangeLatencyNs_ = 5000
    /\ \E i \in DOMAIN trace :
          /\ trace[i].ev = "processAction" /\ trace[i].depth = 1 /\ OfCallback(i)
          /\ \E r \in OwnRecords(i) : r.event_type = 3
    /\ \E i \in DOMAIN trace :
          /\ trace[i].ev = "fillResting"
          /\ trace[i].ts < dispatched.ts

\* C19: timestamps are only shifted forward: every record written during the
\* dispatch of an event of timestamp ts carries a timestamp >= ts, the FILL
\* records of the re-evaluation pass for orders placed by earlier events
\* included.
C19_NotBeforeEvent ==
    \A k \in DOMAIN outputFile_ : outputFile_[k].timestamp >= dispatched.ts

\* C20: in queue mode every BookTop synthesized from the book that passes
\* the validity filter updates the market state and is delivered to the
\* strategy, however close in time it is to the top processed before it.
C20_QueueNotCoalesced ==
    (pc = "queueLoop" /\ queueRun.processedEvents > 0 /\ queueRun.topChanged
       /\ ~invalidTop(queueRun.currentTop))
    => /\ marketState_.lastBookTop = queueRun.currentTop
       /\ \E i \in DOMAIN trace : trace[i].ev = "onBookTopUpdate"


RECURSIVE SumQty(_)
SumQty(list) == IF list = <<>> THEN 0 ELSE list[1].qty + SumQty(Tail(list))

LevelsOf(q) == {q.bid_book[p] : p \in DOMAIN q.bid_book} \cup {q.ask_book[p] : p \in DOMAIN q.ask_book}

\* C21: after every book event of queue mode, every price level present on
\* either side of the book has a total quantity equal to the sum of the
\* quantities of the entries of its queue, and a total quantity above zero.
C21_LevelTotals ==
    (pc \in {"queueTop", "queueLoop"})
    => \A level \in LevelsOf(queueRun) :
          level.first = SumQty(level.second) /\ level.first > 0


\* the entries of the queues of a book, each with its side and price
EntriesOf(q) ==
    UNION {UNION {{[is_bid |-> b, price |-> p, order |-> q[sideOf(b)][p].second[k]] :
                      k \in DOMAIN q[sideOf(b)][p].second} : p \in DOMAIN q[sideOf(b)]} :
           b \in BOOLEAN}

RefersTo(q, id, e) ==
    /\ q.order_map[id].order_it = e.order.node
    /\ q.order_map[id].price = e.price
    /\ q.order_map[id].is_bid = e.is_bid
    /\ e.order.order_id = id

\* C22: after every book event of queue mode the order map and the book
\* correspond one to one: every entry of a level's queue is referred to by
\* exactly one entry of the order map, and every entry of the order map
\* refers to a queue entry with its order id, in the level at the recorded
\* price on the recorded side.
C22_MapMatchesBook ==
    (pc \in {"queueTop", "queueLoop"})
    => /\ \A e \in EntriesOf(queueRun) :
             Cardinality({id \in DOMAIN queueRun.order_map : RefersTo(queueRun, id, e)}) = 1
       /\ \A id \in DOMAIN queueRun.order_map :
             \E e \in EntriesOf(queueRun) : RefersTo(queueRun, id, e)


\* the nodes of the queue of a level, in queue order (none if the level is absent)
NodesAt(q, is_bid, price) ==
    IF price \in DOMAIN q[sideOf(is_bid)]
    THEN [k \in DOMAIN q[sideOf(is_bid)][price].second |-> q[sideOf(is_bid)][price].second[k].node]
    ELSE <<>>
Among(list, others) == SelectSeq(list, LAMBDA n : \E k \in DOMAIN others : others[k] = n)
EntryOf(q, node) == CHOOSE e \in EntriesOf(q) : e.order.node = node

\* what an event keeps of the order of a level: the entries that stay keep
\* their relative order, and the entries that come are behind all of them
KeepsOrder(old, new) ==
    /\ Among(new, old) = Among(old, new)
    /\ \A i, j \in DOMAIN new :
          (i < j /\ \A k \in DOMAIN old : old[k] # new[i]) => \A k \in DOMAIN old : old[k] # new[j]

\* C23: within a price level the queue is in insertion order: an event
\* appends at the back, never changes the relative order of the entries
\* that stay, and amend_order changes nothing but the quantity and the
\* timestamp of its entry, which keeps its place.
C23_QueueOrder ==
    [][(pc = "queueLoop" /\ pc' = "queueTop")
       => /\ \A b \in BOOLEAN : \A p \in DOMAIN queueRun'[sideOf(b)] :
                KeepsOrder(NodesAt(queueRun, b, p), NodesAt(queueRun', b, p))
          /\ queueRun'.event.type = "amend_order"
             => /\ \A b \in BOOLEAN : \A p \in DOMAIN queueRun[sideOf(b)] :
                      NodesAt(queueRun', b, p) = NodesAt(queueRun, b, p)
                /\ \A e \in EntriesOf(queueRun) :
                      LET e1 == EntryOf(queueRun', e.order.node)
                      IN IF /\ queueRun'.event.order_id \in DOMAIN queueRun.order_map
                            /\ queueRun.order_map[queueRun'.event.order_id].order_it = e.order.node
                         THEN e1 = [e EXCEPT !.order.qty = queueRun'.event.new_qty,
                                             !.order.timestamp = queueRun'.eventHeader.ts]
                         ELSE e1 = e]_vars

\* an amend_order changed the quantity of the first of two entries of a level
C23_Witness ==
    /\ pc = "queueTop"
    /\ queueRun.event.type = "amend_order"
    /\ \E e \in EntriesOf(queueRun) :
          /\ e.order.order_id = queueRun.event.order_id
          /\ e.order.timestamp = queueRun.eventHeader.ts
          /\ e.order.qty = queueRun.event.new_qty
          /\ Len(NodesAt(queueRun, e.is_bid, e.price)) = 2
          /\ NodesAt(queueRun, e.is_bid, e.price)[1] = e.order.node
          /\ queueRun[sideOf(e.is_bid)][e.price].second[2].timestamp < e.order.timestamp


\* the event of the step was an execute of either kind
Executes(type) == type \in {"execute_order", "execute_order_at_price"}
BookOf(q) == [bid_book |-> q.bid_book, ask_book |-> q.ask_book, order_map |-> q.order_map]
\* the entry an order id of the map refers to, if it is in the book
LiveEntries(q, id) ==
    IF id \in DOMAIN q.order_map
    THEN {e \in EntriesOf(q) : /\ e.order.node = q.order_map[id].order_it
                               /\ e.price = q.order_map[id].price
                               /\ e.is_bid = q.order_map[id].is_bid}
    ELSE {}
BestOpposing(q, is_bid) ==
    IF is_bid
    THEN IF DOMAIN q.ask_book = {} THEN INT64_MAX ELSE bestAsk(q.ask_book)
    ELSE IF DOMAIN q.bid_book = {} THEN 0 ELSE bestBid(q.bid_book)

\* the fill of an execute of traded_qty of entry e, and the book after it
ExecutedAs(q, q1, e) ==
    LET ev == q1.event
        fill == q1.fills[1]
        left == e.order.qty - ev.traded_qty
        total == q[sideOf(e.is_bid)][e.price].first - ev.traded_qty
        nodes == NodesAt(q1, e.is_bid, e.price)
    IN /\ Len(q1.fills) = 1
       /\ fill.ts = q1.eventHeader.ts /\ fill.seq_no = q1.eventHeader.seq_no
       /\ fill.trade_qty = ev.traded_qty
       /\ fill.resting_side_is_bid = e.is_bid /\ fill.resting_side_price = e.price
       /\ fill.trade_price = IF ev.type = "execute_order_at_price"
                             THEN ev.execution_price ELSE e.price
       /\ fill.opposing_side_price = BestOpposing(q, e.is_bid)
       /\ IF left = 0
          THEN \A k \in DOMAIN nodes : nodes[k] # e.order.node
          ELSE /\ EntryOf(q1, e.order.node).order.qty = left
               /\ KeepsOrder(NodesAt(q, e.is_bid, e.price), nodes)
       /\ IF total = 0
          THEN e.price \notin DOMAIN q1[sideOf(e.is_bid)]
          ELSE q1[sideOf(e.is_bid)][e.price].first = total

ExecutedWrapping(q, q1, e) ==
    LET ev == q1.event
        fill == q1.fills[1]
        left == Wrap(e.order.qty - ev.traded_qty)
        total == Wrap(q[sideOf(e.is_bid)][e.price].first - ev.traded_qty)
        nodes == NodesAt(q1, e.is_bid, e.price)
    IN /\ Len(q1.fills) = 1
       /\ fill.ts = q1.eventHeader.ts /\ fill.seq_no = q1.eventHeader.seq_no
       /\ fill.trade_qty = ev.traded_qty
       /\ fill.resting_side_is_bid = e.is_bid /\ fill.resting_side_price = e.price
       /\ fill.trade_price = IF ev.type = "execute_order_at_price"
                             THEN ev.execution_price ELSE e.price
       /\ fill.opposing_side_price = BestOpposing(q, e.is_bid)
       /\ IF left = 0 /\ total = 0
          THEN e.price \notin DOMAIN q1[sideOf(e.is_bid)]
          ELSE /\ q1[sideOf(e.is_bid)][e.price].first = total
               /\ KeepsOrder(NodesAt(q, e.is_bid, e.price), nodes)
               /\ IF left = 0
                  THEN \A k \in DOMAIN nodes : nodes[k] # e.order.node
                  ELSE EntryOf(q1, e.order.node).order.qty = left
       /\ q1.order_map = IF left = 0
                         THEN MapErase(q.order_map, ev.order_id) ELSE q.order_map

KthBid(q, k) ==
    LET ps == {p \in DOMAIN q.bid_book : Cardinality({x \in DOMAIN q.bid_book : x > p}) = k - 1}
    IN IF ps = {} THEN <<0, 0>>
       ELSE LET p == CHOOSE x \in ps : TRUE IN <<p, q.bid_book[p].first>>
KthAsk(q, k) ==
    LET ps == {p \in DOMAIN q.ask_book : Cardinality({x \in DOMAIN q.ask_book : x < p}) = k - 1}
    IN IF ps = {} THEN <<INT64_MAX, 0>>
       ELSE LET p == CHOOSE x \in ps : TRUE IN <<p, q.ask_book[p].first>>
KthLevel(q, k) == Level(KthBid(q, k)[1], KthAsk(q, k)[1], KthBid(q, k)[2], KthAsk(q, k)[2])
\* the best level with an unreasonable price replaced by the sentinel
Reasonable(lvl) ==
    Level(IF lvl.bid_nanos > MAX_REASONABLE_PRICE THEN 0 ELSE lvl.bid_nanos,
          IF lvl.ask_nanos > MAX_REASONABLE_PRICE THEN INT64_MAX ELSE lvl.ask_nanos,
          IF lvl.bid_nanos > MAX_REASONABLE_PRICE THEN 0 ELSE lvl.bid_qty,
          IF lvl.ask_nanos > MAX_REASONABLE_PRICE THEN 0 ELSE lvl.ask_qty)

\* C25: the BookTop queue mode synthesizes for an event has the event's ts
\* and seqno and the three best levels of each side of the book (price and
\* total quantity, 0 or INT64_MAX and quantity 0 where there is none), with
\* a best price above MAX_REASONABLE_PRICE replaced by the sentinel and the
\* book left as it is; it is the only one for the event, and the fill of
\* the same event was dispatched before it.
C25_SynthesizedTop ==
    [][(pc = "queueTop" /\ queueRun.topChanged)
       => /\ queueRun'.currentTop =
                [ts |-> queueRun.eventHeader.ts, seqno |-> queueRun.eventHeader.seq_no,
                 top_level |-> Reasonable(KthLevel(queueRun, 1)),
                 second_level |-> KthLevel(queueRun, 2),
                 third_level |-> KthLevel(queueRun, 3)]
          /\ BookOf(queueRun') = BookOf(queueRun)
          /\ dispatched' = [kind |-> "top", ts |-> queueRun.eventHeader.ts]
          /\ queueRun.fills # <<>> => dispatched = [kind |-> "fill", ts |-> queueRun.eventHeader.ts]
          /\ queueRun'.processedEvents = queueRun.processedEvents + 1
          /\ pc' = "queueLoop"]_vars

\* a top was synthesized from three bid levels, the best of them unreasonable
C25_Witness ==
    /\ pc = "queueLoop"
    /\ queueRun.processedEvents > 0
    /\ queueRun.topChanged
    /\ Cardinality(DOMAIN queueRun.bid_book) = 3
    /\ bestBid(queueRun.bid_book) > MAX_REASONABLE_PRICE
    /\ queueRun.currentTop.top_level.bid_nanos = 0
    /\ queueRun.currentTop.second_level.bid_nanos = 100
    /\ queueRun.currentTop.third_level.bid_nanos = 99


SameButTime(r1, r2) == [r1 EXCEPT !.timestamp = 0] = [r2 EXCEPT !.timestamp = 0]

\* C26: queue mode on a book events file and tops/fills mode on the tops
\* and fills derived from it, with the same strategy and latencies, end
\* with the same position, cash flow, orders placed and orders filled, and
\* write the same OrderRecords in the same order, up to the timestamp.
C26_ModeEquivalence ==
    (pc = "done" /\ "topsFills" \in DOMAIN shadow)
    => /\ shadow.topsFills.position_ = position_
       /\ shadow.topsFills.cashFlow_ = cashFlow_
       /\ shadow.topsFills.totalOrdersPlaced_ = totalOrdersPlaced_
       /\ shadow.topsFills.totalOrdersFilled_ = totalOrdersFilled_
       /\ Len(shadow.topsFills.outputFile_) = Len(shadow.records)
       /\ \A k \in DOMAIN shadow.records :
             SameButTime(shadow.topsFills.outputFile_[k], shadow.records[k])

\* the FILL records of the dispatch: the steps that wrote one
FillSteps ==
    {i \in DOMAIN trace :
        trace[i].ev = "record" /\ outputFile_[trace[i].snap.records].event_type = 3}

\* C27: every FILL record is for an order of the active set, on that order's
\* side, at the opposing price of the stored top at that moment, and that
\* price is no worse than the order's limit price at that moment: at most the
\* limit for a bid, at least the limit for an ask (whether the fill comes
\* from an ADD, a REPLACE, the re-evaluation pass or an action a callback
\* returned).
C27_FillWithinLimit ==
    \A i \in FillSteps :
        LET r == outputFile_[trace[i].snap.records]
            at == trace[i].snap
        IN /\ r.order_id \in DOMAIN at.activeOrders_
           /\ LET o == at.activeOrders_[r.order_id]
              IN /\ r.is_bid = o.isBid
                 /\ r.price = Opposing(o.isBid, at.lastBookTop)
                 /\ o.isBid => r.price <= o.price
                 /\ ~o.isBid => r.price >= o.price

\* a crossing bid was filled below its limit, and in the same dispatch the
\* re-evaluation pass filled a resting order
C27_Witness ==
    /\ \E i \in FillSteps :
          LET r == outputFile_[trace[i].snap.records]
          IN r.is_bid /\ r.price < trace[i].snap.activeOrders_[r.order_id].price
    /\ \E i \in FillSteps : i > 1 /\ trace[i - 1].ev = "fillResting"

\* C28: between dispatched events no order of the active set would fill
\* against the stored top with its remaining quantity.
C28_NoCrossingOrderRests ==
    \A id \in DOMAIN activeOrders_ :
        LET o == activeOrders_[id]
        IN ~Crosses(o.isBid, o.price, o.quantity - o.filledQuantity,
                    marketState_.lastBookTop)

\* the orders that were active when the pass began and that nothing touched
\* until the dispatch returned
Untouched ==
    LET S == trace[PassStart].snap
    IN {id \in DOMAIN S.activeOrders_ :
           id \in DOMAIN activeOrders_ /\ activeOrders_[id] = S.activeOrders_[id]}

\* C29: the re-evaluation pass never goes on from an iterator that the fill
\* it triggered has invalidated (the node of the filled order put back by
\* the callback's actions, the node of the next order destroyed by them, or
\* an insertion), and it has evaluated every order that was active when it
\* began and is active, as it was, when it ends: none of these is left
\* crossing the top.
C29_PassSafe ==
    HasPass =>
        /\ \A i \in DOMAIN trace : trace[i].ev # "nextIt"
        /\ Due \cap Untouched = {}

\* step i is the call of processAction with a REPLACE of an active order whose
\* new price and quantity cross the top on the order's stored side
CrossingReplace(i) ==
    /\ IsCall(i, "REPLACE")
    /\ trace[i].action.orderId \in DOMAIN trace[i].snap.activeOrders_
    /\ Crosses(trace[i].snap.activeOrders_[trace[i].action.orderId].isBid,
               trace[i].action.price, trace[i].action.quantity, trace[i].snap.lastBookTop)

\* C30: a REPLACE whose new price and quantity would fill against the top, on
\* the side the order is stored with, is decided by the stored post-only
\* flag.  A post-only order is removed and a CANCEL record with the new price
\* and quantity is written at action.md_ts, position, cash flow and the fill
\* counters unchanged; any other order is filled at the opposing price of the
\* top for the new quantity less the quantity filled before, on its stored
\* side at action.md_ts + exchangeLatencyNs_, and is not active when the
\* strategy is told.
C30_ReplaceCrossing ==
    \A i \in DOMAIN trace :
        CrossingReplace(i) =>
            LET a == trace[i].action
                pre == trace[i].snap
                o == pre.activeOrders_[a.orderId]
                qty == a.quantity - o.filledQuantity
                price == Opposing(o.isBid, pre.lastBookTop)
                sign == IF o.isBid THEN 1 ELSE -1
            IN IF o.isPostOnly
               THEN /\ i + 4 <= Len(trace)
                    /\ trace[i + 2].ev = "freed"
                    /\ trace[i + 3].ev = "record"
                    /\ LET r == outputFile_[trace[i + 3].snap.records]
                       IN /\ r.event_type = 2 /\ r.order_id = a.orderId
                          /\ r.timestamp = a.md_ts
                          /\ r.price = a.price /\ r.quantity = a.quantity
                    /\ trace[i + 4].ev = "return"
                    /\ LET post == trace[i + 4].snap
                       IN /\ a.orderId \notin DOMAIN post.activeOrders_
                          /\ post.position_ = pre.position_
                          /\ post.cashFlow_ = pre.cashFlow_
                          /\ post.totalOrdersFilled_ = pre.totalOrdersFilled_
                          /\ post.totalBuyVolume_ = pre.totalBuyVolume_
                          /\ post.totalSellVolume_ = pre.totalSellVolume_
               ELSE /\ i + 3 <= Len(trace)
                    /\ Wrote(i + 2, OrderRecord(a.md_ts + exchangeLatencyNs_, 3, a.orderId,
                                                o.symbolId, price, qty, o.isBid))
                    /\ trace[i + 3].ev = "onOrderFilled"
                    /\ trace[i + 3].id = a.orderId
                    /\ LET post == trace[i + 3].snap
                       IN /\ a.orderId \notin DOMAIN post.activeOrders_
                          /\ post.position_ = pre.position_ + sign * qty
                          /\ post.cashFlow_ = pre.cashFlow_ - sign * price * qty
                          /\ post.totalOrdersFilled_ = pre.totalOrdersFilled_ + 1

\* a resting post-only bid was replaced to a price that reaches the ask while
\* the action itself carries the other side and no post-only flag
C30_Witness ==
    \E i \in DOMAIN trace :
        /\ CrossingReplace(i)
        /\ LET o == trace[i].snap.activeOrders_[trace[i].action.orderId]
           IN /\ o.isBid /\ o.isPostOnly
              /\ ~trace[i].action.isBid /\ ~trace[i].action.isPostOnly
              /\ o.quantity # trace[i].action.quantity

\* a strategy that answers the next onOrderFilled with an order
Told == [Quiet EXCEPT !.script = <<<<Add(2, 100, 1, TRUE, FALSE)>>>>]
\* notification times processFill is handed
ProbeTimes == {0, 7000}

\* C31: processFill for an order id that is not active, with a fill price
\* that is not positive or is INT64_MAX, or with fill quantity 0 returns
\* without any effect: no record, no change of the order, the active set,
\* position, cash flow, volumes, orders filled or the latency accumulators,
\* and no onOrderFilled call.
C31_InvalidFillSkipped ==
    \A orderId \in Ids \cup {3}, price \in ProbePrices, qty \in ProbeQtys,
       isBid \in BOOLEAN, time \in ProbeTimes :
        (orderId \notin DOMAIN activeOrders_ \/ price <= 0 \/ price = INT64_MAX \/ qty = 0)
            => processFill(Sim(Told), orderId, price, qty, isBid, time) = Sim(Told)

\* an order is active for which a fill at price 0 and a fill of quantity 0
\* are skipped while a fill of one lot at 100 is processed
C31_Witness ==
    /\ position_ # 0
    /\ \E orderId \in DOMAIN activeOrders_ :
          /\ processFill(Sim(Told), orderId, 0, 1, TRUE, 7000) = Sim(Told)
          /\ processFill(Sim(Told), orderId, 100, 0, TRUE, 7000) = Sim(Told)
          /\ Consulted(processFill(Sim(Told), orderId, 100, 1, TRUE, 7000), "onOrderFilled")

NothingFilled(orders) == \A id \in DOMAIN orders : orders[id].filledQuantity = 0

\* C32: a fill is never partial.  Every FILL record is for the whole current
\* quantity of its order, the order is out of the active set when the
\* strategy is told of the fill, and every order of the active set has
\* filledQuantity 0, between events and at every step of a dispatch but the
\* writing of a FILL record (where the filled order is about to be erased).
C32_NoPartialFills ==
    /\ NothingFilled(activeOrders_)
    /\ \A i \in DOMAIN trace \ FillSteps : NothingFilled(trace[i].snap.activeOrders_)
    /\ \A i \in FillSteps :
          LET r == outputFile_[trace[i].snap.records]
              at == trace[i].snap.activeOrders_
          IN /\ r.order_id \in DOMAIN at
             /\ r.quantity = at[r.order_id].quantity
             /\ NothingFilled([id \in DOMAIN at \ {r.order_id} |-> at[id]])
             /\ i + 1 <= Len(trace)
             /\ trace[i + 1].ev = "onOrderFilled"
             /\ r.order_id \notin DOMAIN trace[i + 1].snap.activeOrders_

\* an order whose quantity a REPLACE had changed to 2 was filled, for 2, while
\* another order stays active
C32_Witness ==
    /\ activeOrders_ # <<>>
    /\ \E i \in FillSteps : outputFile_[trace[i].snap.records].quantity = 2

\* the CANCEL and FILL records among the first n records of the dispatch
Departures(n) == Cardinality({j \in 1..n : outputFile_[j].event_type \in {2, 3}})
\* no ADD of the dispatch names an order id that is active when it is issued
FreshAdds ==
    \A i \in DOMAIN trace :
        IsAdd(i) => trace[i].action.orderId \notin DOMAIN trace[i].snap.activeOrders_
\* orders placed less the orders that are active and the orders that left
\* through a CANCEL or FILL record, relative to the records of the dispatch
Unaccounted(snap) ==
    snap.totalOrdersPlaced_ - Cardinality(DOMAIN snap.activeOrders_) - Departures(snap.records)

\* C33: in a dispatch whose ADDs are all for ids that are not active, orders
\* placed grows by exactly the growth of the active set plus the number of
\* CANCEL and FILL records written, at every return of processAction and
\* when the dispatch returns: as all three are zero at the start, orders
\* placed = active orders + CANCEL records + FILL records between actions.
C33_OrdersConserved ==
    (trace # <<>> /\ FreshAdds) =>
        /\ \A i \in DOMAIN trace :
              trace[i].ev = "return" => Unaccounted(trace[i].snap) = Unaccounted(trace[1].snap)
        /\ totalOrdersPlaced_ - Cardinality(DOMAIN activeOrders_) - Departures(Len(outputFile_))
              = Unaccounted(trace[1].snap)

\* in one dispatch an order was cancelled, an order was filled and an order
\* was left resting
C33_Witness ==
    /\ trace # <<>> /\ FreshAdds
    /\ \E j \in DOMAIN outputFile_ : outputFile_[j].event_type = 2
    /\ \E j \in DOMAIN outputFile_ : outputFile_[j].event_type = 3
    /\ activeOrders_ # <<>>

\* the order ids that are open after the given records, starting from the
\* set open: an ADD record opens its id, a CANCEL or FILL record closes it
RECURSIVE OpenAfter(_, _)
OpenAfter(records, open) ==
    IF records = <<>> THEN open
    ELSE LET r == Head(records)
         IN OpenAfter(Tail(records),
                      CASE r.event_type = 1 -> open \cup {r.order_id}
                        [] r.event_type \in {2, 3} -> open \ {r.order_id}
                        [] OTHER -> open)

\* C34: the records of an order id follow the protocol ADD, then REPLACEs,
\* then one CANCEL or FILL.  The ids open when a dispatch begins are the
\* active orders; every CANCEL, FILL or REPLACE record the dispatch writes is
\* for an id that is open at that point of the output, and the ids open
\* after its last record are again exactly the active orders (so the same
\* holds for the next dispatch, and so for the whole output stream).
C34_RecordProtocol ==
    trace # <<>> =>
        /\ \A j \in DOMAIN outputFile_ :
              outputFile_[j].event_type \in {2, 3, 4} =>
                 outputFile_[j].order_id \in
                    OpenAfter(SubSeq(outputFile_, 1, j - 1), DOMAIN trace[1].snap.activeOrders_)
        /\ OpenAfter(outputFile_, DOMAIN trace[1].snap.activeOrders_) = DOMAIN activeOrders_

\* an order that was active before the dispatch was replaced and then filled,
\* and the same id was added again afterwards and rests
C34_Witness ==
    \E j, k, l \in DOMAIN outputFile_ :
        /\ j < k /\ k < l
        /\ outputFile_[j].event_type = 4
        /\ outputFile_[k].event_type = 3
        /\ outputFile_[l].event_type = 1
        /\ outputFile_[j].order_id = outputFile_[k].order_id
        /\ outputFile_[k].order_id = outputFile_[l].order_id
        /\ outputFile_[l].order_id \in DOMAIN activeOrders_
        /\ outputFile_[l].order_id \in DOMAIN trace[1].snap.activeOrders_

\* the stored top and mid price are those of a top that passed the filter, or
\* the initial ones, and nothing was filled while they are the initial ones
StoredTopValid(state, filled, records) ==
    /\ state.lastBookTop = ZeroTop \/ WellFormed(state.lastBookTop.top_level)
    /\ state.lastValidMidPrice =
          (state.lastBookTop.top_level.bid_nanos + state.lastBookTop.top_level.ask_nanos) \div 2
    /\ state.lastBookTop = ZeroTop =>
          /\ filled = 0
          /\ \A j \in DOMAIN records : records[j].event_type # 3

\* C35: after every step of the queue simulation the stored lastBookTop is
\* the initial all-zero value or a top with 0 < bid < ask <= MAX_REASONABLE_PRICE,
\* lastValidMidPrice is (bid + ask) / 2 of it, and while it is the initial
\* value no order was filled and no FILL record written; a step that hands
\* processBookTop a synthesized top that fails the filter (a side of the book
\* is empty) leaves the stored top and mid price as they were.
C35_StoredTopValid ==
    [][/\ StoredTopValid(marketState_', totalOrdersFilled_', outputFile_')
       /\ (pc = "queueTop" /\ queueRun.topChanged
             /\ ~WellFormed(queueRun'.currentTop.top_level))
            => marketState_' = marketState_]_vars

\* orders were filled against an accepted top, and the top synthesized for the
\* last event, with no asks left in the book, was rejected
C35_Witness ==
    /\ pc = "queueLoop"
    /\ dispatched.kind = "top"
    /\ queueRun.currentTop.top_level.ask_nanos = INT64_MAX
    /\ queueRun.currentTop.top_level.bid_nanos = 99
    /\ WellFormed(marketState_.lastBookTop.top_level)
    /\ totalOrdersFilled_ > 0

\* actions as a strategy returns them: with sent_ts left 0, and with a
\* sent_ts of its own
StampProbes ==
    {Add(2, 100, 1, TRUE, FALSE), [Add(2, 100, 1, TRUE, FALSE) EXCEPT !.sent_ts = 500],
     [Cancel(1) EXCEPT !.sent_ts = 7000]}
\* the simulator after the loop over the one returned action, for an event
\* whose delayed timestamp is ts
AfterAction(action, ts) ==
    processActions(Sim(Quiet), <<action>>, ts, marketState_.lastBookTop)

\* C36: every returned action is handed to processAction with sent_ts set to
\* the delayed event timestamp where the strategy left it 0 and unchanged
\* otherwise, and with md_ts = sent_ts + exchangeLatencyNs_; the loop adds
\* exchangeLatencyNs_ to totalStrategyToExchangeLatencyNs once per action.
C36_StampsFromSentTs ==
    \A action \in StampProbes, ts \in ProbeTimes :
        LET s == AfterAction(action, ts)
            stamped == s.trace[1].action
        IN /\ s.trace[1].ev = "processAction"
           /\ stamped.sent_ts = IF action.sent_ts = 0 THEN ts ELSE action.sent_ts
           /\ stamped.md_ts = stamped.sent_ts + exchangeLatencyNs_
           /\ s.latencyStats_.totalStrategyToExchangeLatencyNs =
                 latencyStats_.totalStrategyToExchangeLatencyNs + exchangeLatencyNs_

\* C37: the exchange-to-notification accumulator grows by exchangeLatencyNs_
\* once per fill and at no other time: it is exchangeLatencyNs_ times the
\* number of orders filled.
C37_NotificationLatencyPerFill ==
    latencyStats_.totalExchangeToNotificationLatencyNs = exchangeLatencyNs_ * totalOrdersFilled_

\* C38: after every book event (and the top dispatch that follows it) the
\* tracked top's best bid and best ask prices are those of the book as it
\* then is, as updateTopLevels reports them: every event that changed a best
\* price had a top synthesized for it.
C38_TrackedTopCurrent ==
    (pc = "queueLoop" /\ queueRun # NoQueueRun /\ ~queueRun.undefined) =>
        LET now == updateTopLevels(queueRun).currentTop.top_level
            tracked == queueRun.currentTop.top_level
        IN /\ tracked.bid_nanos = now.bid_nanos
           /\ tracked.ask_nanos = now.ask_nanos

\* the order new_order_id is in the map on the given side at the event's
\* price, and is the last entry of that level, with the event's quantity
InsertedOn(q, replace, is_bid) ==
    /\ replace.new_order_id \in DOMAIN q.order_map
    /\ q.order_map[replace.new_order_id].is_bid = is_bid
    /\ q.order_map[replace.new_order_id].price = replace.price
    /\ replace.price \in DOMAIN q[sideOf(is_bid)]
    /\ LET list == q[sideOf(is_bid)][replace.price].second
       IN /\ list # <<>>
          /\ list[Len(list)].order_id = replace.new_order_id
          /\ list[Len(list)].qty = replace.qty
          /\ list[Len(list)].node = q.order_map[replace.new_order_id].order_it

\* C39: a replace_order of a live order takes the original out of the order
\* map and puts new_order_id, with the new quantity, at the back of the new
\* price's level on the side the original was stored with; for an unknown
\* original the side is bid iff the new price is positive.
C39_ReplaceKeepsSide ==
    [][(pc = "queueLoop" /\ pc' = "queueTop" /\ queueRun'.event.type = "replace_order")
       => LET replace == queueRun'.event
              found == Lookup(queueRun, replace.orig_order_id)
          IN /\ found = "live" =>
                  /\ InsertedOn(queueRun', replace,
                                queueRun.order_map[replace.orig_order_id].is_bid)
                  /\ replace.orig_order_id # replace.new_order_id
                        => replace.orig_order_id \notin DOMAIN queueRun'.order_map
             /\ found = "unknown" => InsertedOn(queueRun', replace, replace.price > 0)]_vars

(***************************************************************************)
(* The book events file as bytes.  runQueueSimulation reads the file       *)
(* header, then in a loop an event header and, inside the case of the      *)
(* event's type, the payload of that type.  The stream position is the     *)
(* field offset of the locals; the file is in the variable shadow.  A      *)
(* header read at a position where no record starts is made of the bytes   *)
(* of other fields: its type and timestamp are any.                        *)
(***************************************************************************)
sizeof_book_events_file_hdr_t == 24
sizeof_book_event_hdr_t == 17
sizeof_add_order_t == 21
sizeof_delete_order_t == 8
sizeof_session_event_t == 1
sizeof_hidden_trade_t == 29

session_event == [type |-> "session_event", allow_crossed_book |-> TRUE]
hidden_trade == [type |-> "hidden_trade", fill_px |-> 100, resting_id |-> 1, fill_qty |-> 5,
                 resting_is_bid |-> TRUE, exec_id |-> 1]

\* the bytes of the payload that follows a header of this type in the file
sizeof_payload(type) ==
    CASE type = "add_order" -> sizeof_add_order_t
      [] type = "delete_order" -> sizeof_delete_order_t
      [] type = "session_event" -> sizeof_session_event_t
      [] type = "hidden_trade" -> sizeof_hidden_trade_t
      [] OTHER -> 0

\* the bytes the case of this type reads after the header
payloadRead(type) ==
    CASE type = "add_order" -> sizeof_add_order_t
      [] type = "delete_order" -> sizeof_delete_order_t
      [] OTHER -> 0

StreamMaxEvents == 3
StreamEvents ==
    {add_order(1, 100, 5, TRUE), delete_order(1), clear_book, session_event, hidden_trade}
\* the files: records whose timestamps do not decrease
StreamFiles ==
    UNION {[1..n -> StreamEvents] : n \in 0..StreamMaxEvents}

RECURSIVE recordStart(_, _)
\* the position of the header of the k-th record, or of the end of the file
recordStart(file, k) ==
    IF k = 1 THEN sizeof_book_events_file_hdr_t
    ELSE recordStart(file, k - 1) + sizeof_book_event_hdr_t + sizeof_payload(file[k - 1].type)
fileSize(file) == recordStart(file, Len(file) + 1)

\* what the read of a header at this position yields
headersAt(file, offset) ==
    IF \E k \in DOMAIN file : recordStart(file, k) = offset
    THEN LET k == CHOOSE k \in DOMAIN file : recordStart(file, k) = offset
         IN {[ts |-> 1000 * k, event |-> file[k]]}
    ELSE [ts : {0, 1000 * StreamMaxEvents}, event : StreamEvents \cup {[type |-> "invalid"]}]

InitStream ==
    /\ InitRun
    /\ queueRun = NoQueueRun
    /\ \E file \in StreamFiles : shadow = [file |-> file]

\* the read of the file header and the declarations before the loop
StreamStart ==
    /\ pc = "readFirstTop"
    /\ queueRun = NoQueueRun
    /\ queueRun' = [o \in DOMAIN QueueLocals \cup {"offset"} |->
                        IF o = "offset" THEN sizeof_book_events_file_hdr_t ELSE QueueLocals[o]]
    /\ pc' = "queueLoop"
    /\ UNCHANGED <<marketState_, activeOrders_, position_, cashFlow_, totalOrdersPlaced_,
                   totalOrdersFilled_, totalBuyVolume_, totalSellVolume_, latencyStats_,
                   strategyMdLatencyNs_, exchangeLatencyNs_, lastProcessedTime,
                   outputFile_, trace, shadow>>
    /\ UNCHANGED <<bookTop, bookFill, hasMoreTops, hasMoreFills, processedTops,
                   processedFills, topsRead, fillsRead, dispatched>>

\* one iteration of the loop: the read of the header succeeds, the case of
\* its type reads what it reads, up to the update of the top.  A read past
\* the end of the file leaves the stream failed, at its end.
StreamEvent(responses, scripts) ==
    /\ pc = "queueLoop"
    /\ queueRun.offset + sizeof_book_event_hdr_t <= fileSize(shadow.file)
    /\ \E read \in headersAt(shadow.file, queueRun.offset), freed \in QueueFreeds :
         LET hdr == [ts |-> read.ts, seq_no |-> queueRun.processedEvents + 1]
             q == bookEvent(queueRun, read.event, hdr, freed)
             after == queueRun.offset + sizeof_book_event_hdr_t + payloadRead(read.event.type)
             end == fileSize(shadow.file)
         IN /\ queueRun' = [q EXCEPT !.offset = IF after <= end THEN after ELSE end]
            /\ pc' = IF q.undefined THEN "undefined" ELSE "queueTop"
            /\ IF q.fills # <<>>
               THEN /\ \E s \in Outcomes("fill", q.fills[1], responses, scripts) :
                          /\ SetFields(s)
                          /\ shadow' = shadow
                    /\ dispatched' = [kind |-> "fill", ts |-> read.ts]
               ELSE UNCHANGED <<marketState_, activeOrders_, position_, cashFlow_,
                                totalOrdersPlaced_, totalOrdersFilled_, totalBuyVolume_,
                                totalSellVolume_, latencyStats_, strategyMdLatencyNs_,
                                exchangeLatencyNs_, lastProcessedTime, outputFile_, trace,
                                shadow, dispatched>>
    /\ UNCHANGED <<bookTop, bookFill, hasMoreTops, hasMoreFills, processedTops,
                   processedFills, topsRead, fillsRead>>

\* the read of the next event header fails: fewer bytes are left than a header
StreamEnd ==
    /\ pc = "queueLoop"
    /\ queueRun.offset + sizeof_book_event_hdr_t > fileSize(shadow.file)
    /\ pc' = "done"
    /\ UNCHANGED <<simVars, bookTop, bookFill, hasMoreTops, hasMoreFills, processedTops,
                   processedFills, topsRead, fillsRead, dispatched>>

NextStream ==
    \/ StreamStart
    \/ StreamEvent({<<>>}, {<<>>})
    \/ QueueTop({<<>>}, {<<>>})
    \/ StreamEnd

SpecStream == InitStream /\ [][NextStream]_vars

\* the header just read is the header of a record of the file
AtRecord == \E k \in DOMAIN shadow.file : recordStart(shadow.file, k) = queueRun.offset

\* C40: when the loop reads the header of a session_event or of a
\* hidden_trade record, it leaves the stream at the header of the next record
\* (17 bytes of header and 1 or 29 bytes of payload further), leaves both book
\* sides, the order map and the levels of the tracked top as they were, and
\* dispatches nothing to the strategy.
C40_OtherEventsConsumed ==
    [][(pc = "queueLoop" /\ pc' = "queueTop" /\ AtRecord
        /\ queueRun'.event.type \in {"session_event", "hidden_trade"})
       => /\ queueRun'.offset = queueRun.offset + sizeof_book_event_hdr_t
                                + sizeof_payload(queueRun'.event.type)
          /\ queueRun'.bid_book = queueRun.bid_book
          /\ queueRun'.ask_book = queueRun.ask_book
          /\ queueRun'.order_map = queueRun.order_map
          /\ queueRun'.currentTop.top_level = queueRun.currentTop.top_level
          /\ ~queueRun'.topChanged
          /\ dispatched' = dispatched /\ trace' = trace]_vars

====
